---- MODULE Spec2Model ----
(***************************************************************************)
(* A model of the translation request pipeline of the LiveI18n React SDK:  *)
(* the cache key (src/src/cacheKey.ts), the in-memory LRU cache            *)
(* (src/src/useLiveText.ts, lines 56-123) and the request engine           *)
(* (src/src/LiveI18n.ts).                                                  *)
(*                                                                         *)
(* A JavaScript string is a sequence of UTF-16 code units; the value       *)
(* `undefined` is the one-element sequence <<-1>>, which is no string.     *)
(* Time is in milliseconds.  One action is one synchronous block of the    *)
(* program: control returns to the event loop between two actions.         *)
(***************************************************************************)
EXTENDS Integers, Sequences, FiniteSets, TLC

Undefined == <<-1>>

IsString(v) == v # Undefined

\* JavaScript truthiness of a string-or-undefined value
Truthy(v) == v # Undefined /\ Len(v) > 0

\* a || b on string-or-undefined values
OrElse(a, b) == IF Truthy(a) THEN a ELSE b

Min(a, b) == IF a <= b THEN a ELSE b

RECURSIVE Pow2(_)
Pow2(n) == IF n = 0 THEN 1 ELSE 2 * Pow2(n - 1)

\* String.prototype.substring(0, n)
Substring0(s, n) == IF Len(s) <= n THEN s ELSE SubSeq(s, 1, n)

(***************************************************************************)
(* The cache key: generateCacheKey and simpleHash.                         *)
(***************************************************************************)

\* code units String.prototype.trim removes (white space and line
\* terminators), within the Latin-1 range the model's inputs are drawn from
IsWhiteSpace(c) == c \in {9, 10, 11, 12, 13, 32, 160}

RECURSIVE TrimStart(_)
TrimStart(s) ==
  IF s # <<>> /\ IsWhiteSpace(Head(s)) THEN TrimStart(Tail(s)) ELSE s

RECURSIVE TrimEnd(_)
TrimEnd(s) ==
  IF s # <<>> /\ IsWhiteSpace(s[Len(s)])
    THEN TrimEnd(SubSeq(s, 1, Len(s) - 1))
    ELSE s

Trim(s) == TrimEnd(TrimStart(s))

\* String.prototype.toLowerCase on Latin-1 code units
LowerChar(c) ==
  IF (c >= 65 /\ c <= 90) \/ (c >= 192 /\ c <= 222 /\ c # 215)
    THEN c + 32
    ELSE c

ToLowerCase(s) == [i \in 1..Len(s) |-> LowerChar(s[i])]

HexDigit(d) == IF d < 10 THEN 48 + d ELSE 87 + d

\* JSON.stringify of one code unit inside a string literal
JsonChar(c) ==
  IF c = 34 THEN <<92, 34>>
  ELSE IF c = 92 THEN <<92, 92>>
  ELSE IF c = 8 THEN <<92, 98>>
  ELSE IF c = 9 THEN <<92, 116>>
  ELSE IF c = 10 THEN <<92, 110>>
  ELSE IF c = 12 THEN <<92, 102>>
  ELSE IF c = 13 THEN <<92, 114>>
  ELSE IF c < 32 THEN <<92, 117, 48, 48, HexDigit(c \div 16), HexDigit(c % 16)>>
  ELSE <<c>>

RECURSIVE JsonEscapeRange(_, _, _)
\* the escapes of the code units a..b of s, in order
JsonEscapeRange(s, a, b) ==
  IF a > b THEN <<>>
  ELSE IF a = b THEN JsonChar(s[a])
  ELSE LET m == (a + b) \div 2
       IN  JsonEscapeRange(s, a, m) \o JsonEscapeRange(s, m + 1, b)

JsonEscape(s) == JsonEscapeRange(s, 1, Len(s))

JsonString(s) == <<34>> \o JsonEscape(s) \o <<34>>

\* "name":"value"
JsonField(name, s) == JsonString(name) \o <<58>> \o JsonString(s)

\* JSON.stringify(sortedObj): the five fields in the alphabetical order of
\* their names c, ctx, l, t, tn
JsonOfNormalized(n) ==
  <<123>> \o JsonField(<<99>>, n.c) \o <<44>>
          \o JsonField(<<99, 116, 120>>, n.ctx) \o <<44>>
          \o JsonField(<<108>>, n.l) \o <<44>>
          \o JsonField(<<116>>, n.t) \o <<44>>
          \o JsonField(<<116, 110>>, n.tn) \o <<125>>

\* One round of simpleHash on the 32-bit word [hi, lo] (two 16-bit halves):
\* hash = ((hash << 5) - hash) + char; hash = hash & hash
HashStep(h, c) ==
  LET lo == 31 * h.lo + c
      hi == 31 * h.hi + (lo \div 65536)
  IN  [hi |-> hi % 65536, lo |-> lo % 65536]

RECURSIVE HashRange(_, _, _, _)
\* the rounds of the loop for i = a..b, in order, applied to h; the word
\* after the rounds a..m is worked out before the rounds m+1..b start
HashRange(h, s, a, b) ==
  IF a > b THEN h
  ELSE IF a = b THEN HashStep(h, s[a])
  ELSE CHOOSE r \in {HashRange(left, s, m + 1, b) :
                       left \in {HashRange(h, s, a, m) : m \in {(a + b) \div 2}},
                       m \in {(a + b) \div 2}} : TRUE

\* Math.abs of the signed 32-bit integer whose two's complement is [hi, lo]
AbsWord(h) ==
  IF h.hi < 32768 THEN h
  ELSE IF h.lo = 0 THEN [hi |-> 65536 - h.hi, lo |-> 0]
  ELSE [hi |-> 65535 - h.hi, lo |-> 65536 - h.lo]

RECURSIVE HexOf(_)
\* Number.prototype.toString(16) of a natural number below 65536
HexOf(n) ==
  IF n < 16 THEN <<HexDigit(n)>> ELSE HexOf(n \div 16) \o <<HexDigit(n % 16)>>

RECURSIVE Zeros(_)
Zeros(n) == IF n <= 0 THEN <<>> ELSE <<48>> \o Zeros(n - 1)

\* toString(16) of the 32-bit magnitude [hi, lo]
HexOfWord(h) ==
  IF h.hi = 0 THEN HexOf(h.lo)
  ELSE LET l == HexOf(h.lo) IN HexOf(h.hi) \o Zeros(4 - Len(l)) \o l

\* simpleHash without the padding of line 83
simpleHashUnpadded(str) ==
  HexOfWord(AbsWord(HashRange([hi |-> 0, lo |-> 0], str, 1, Len(str))))

simpleHash(str) ==
  LET hash == HashRange([hi |-> 0, lo |-> 0], str, 1, Len(str))
      hex  == HexOfWord(AbsWord(hash))
  IN  IF Len(hex) >= 8 THEN hex ELSE Zeros(8 - Len(hex)) \o hex

hashStringSync(str) == simpleHash(str)

generateCacheKey(customerId, text, locale, context, tone) ==
  LET normalized == [c   |-> customerId,
                     t   |-> ToLowerCase(Trim(text)),
                     l   |-> ToLowerCase(locale),
                     ctx |-> ToLowerCase(Trim(context)),
                     tn  |-> ToLowerCase(Trim(tone))]
  IN  hashStringSync(JsonOfNormalized(normalized))

(***************************************************************************)
(* LRUCache (src/src/useLiveText.ts, lines 56-123; the class LiveI18n.ts   *)
(* imports).  The Map is the sequence of its entries in insertion order.   *)
(***************************************************************************)

DEFAULT_CACHE_SIZE == 500

MsPerHour == 3600000

\* position of key in the Map, 0 when absent
IndexOfKey(c, key) ==
  IF \E i \in 1..Len(c) : c[i].key = key
    THEN CHOOSE i \in 1..Len(c) : c[i].key = key
    ELSE 0

\* Map.prototype.delete of the entry at position i
DeleteAt(c, i) == SubSeq(c, 1, i - 1) \o SubSeq(c, i + 1, Len(c))

\* a get for which an entry has expired once its age reaches the ttl
LRUCacheGetEarlyExpiry(c, key, ttl, t) ==
  LET i == IndexOfKey(c, key)
  IN  IF i = 0 THEN [cache |-> c, value |-> Undefined]
      ELSE IF t - c[i].timestamp >= ttl
        THEN [cache |-> DeleteAt(c, i), value |-> Undefined]
      ELSE [cache |-> Append(DeleteAt(c, i), c[i]), value |-> c[i].value]

\* a get that leaves the entry it returns where it is in the Map
LRUCacheGetInPlace(c, key, ttl, t) ==
  LET i == IndexOfKey(c, key)
  IN  IF i = 0 THEN [cache |-> c, value |-> Undefined]
      ELSE IF t - c[i].timestamp > ttl
        THEN [cache |-> DeleteAt(c, i), value |-> Undefined]
      ELSE [cache |-> c, value |-> c[i].value]

\* LRUCache.get: the Map after the call and the value returned
LRUCacheGet(c, key, ttl, t) ==
  LET i == IndexOfKey(c, key)
  IN  IF i = 0 THEN [cache |-> c, value |-> Undefined]
      ELSE IF t - c[i].timestamp > ttl
        THEN [cache |-> DeleteAt(c, i), value |-> Undefined]
      ELSE [cache |-> Append(DeleteAt(c, i), c[i]), value |-> c[i].value]

\* a set that moves a key it overwrites to the end of the Map
LRUCacheSetMovesToEnd(c, key, value, maxSize, t) ==
  LET i    == IndexOfKey(c, key)
      item == [key |-> key, value |-> value, timestamp |-> t]
  IN  IF i # 0 THEN [cache |-> Append(DeleteAt(c, i), item), evicted |-> <<>>]
      ELSE IF Len(c) >= maxSize /\ c # <<>>
        THEN [cache |-> Append(Tail(c), item), evicted |-> <<c[1].key>>]
      ELSE [cache |-> Append(c, item), evicted |-> <<>>]

\* a set that evicts nothing
LRUCacheSetWithoutEviction(c, key, value, maxSize, t) ==
  LET i    == IndexOfKey(c, key)
      item == [key |-> key, value |-> value, timestamp |-> t]
  IN  [cache   |-> IF i = 0 THEN Append(c, item) ELSE [c EXCEPT ![i] = item],
       evicted |-> <<>>]

\* LRUCache.set: the Map after the call and the keys passed to onEvict
LRUCacheSet(c, key, value, maxSize, t) ==
  LET evict == Len(c) >= maxSize /\ IndexOfKey(c, key) = 0 /\ Len(c) > 0
      c1    == IF evict THEN Tail(c) ELSE c
      i     == IndexOfKey(c1, key)
      item  == [key |-> key, value |-> value, timestamp |-> t]
  IN  [cache   |-> IF i = 0 THEN Append(c1, item) ELSE [c1 EXCEPT ![i] = item],
       evicted |-> IF evict THEN <<c[1].key>> ELSE <<>>]

(***************************************************************************)
(* The request engine: class LiveI18n (src/src/LiveI18n.ts).               *)
(***************************************************************************)

\* ---- inputs and configuration ----

\* config.customerId: "c1"
CustomerId == <<99, 49>>

\* detectLocale(): "en-US"
detectLocale == <<101, 110, 45, 85, 83>>

\* config.cache = { persistent: false, entrySize: ConfigEntrySize,
\*                  ttlHours: ConfigTtlHours }
ConfigEntrySize == 1

ConfigTtlHours == 1

\* the number of translate calls that go on to the network: in individual
\* mode, and in batch mode beyond the ten that fill the queue once
MaxIndividualCalls == 2

ExtraQueuedCalls == 0

\* the calls after the first VariedCalls all translate the same text
VariedCalls == 1

\* only a request made for one of the first FaultyCalls calls can fail
FaultyCalls == 1

\* the number of batches that are flushed, and the size of the batches
\* after the first
MaxFlushes == 2

LateBatchSize == 1

TextHi == <<72, 105>>

TextHiPadded == <<32, 104, 105>>

TextTooLong == [i \in 1..5001 |-> 97]

Hola == <<72, 111, 108, 97>>

NoOptions == [language |-> Undefined, tone |-> Undefined, context |-> Undefined]

\* texts translate rejects, and texts it accepts
RejectedTexts == {Undefined, <<>>, TextTooLong}

AcceptedTexts == {TextHi, TextHiPadded, Hola}

OptionSet == {NoOptions}

\* what the backend may put in a `translated` field: a text (the translation
\* of one accepted text and the original of another), the empty string, or
\* nothing at all
TranslatedValues == {Hola, <<>>, Undefined}

\* the instants the clock may jump to while something is under way, past
\* what is due before them
IndividualTimePoints == {5000, 9000}

BatchTimePoints == {10}

\* ---- program constants ----

MaxTextLength == 5000

MaxToneLength == 50

MaxContextLength == 500

\* one attempt more than the loop allows
OneMoreRetry == 5 + 1

maxRetries == 5

baseDelay == 100

maxTotalTime == 5000

MaxBackoff == 1600

RequestReserve == 100

QueueFlushSize == 10

QueueTimerDelay == 50

batchMaxRetries == 1

retryDelay == 500

\* ---- responses of fetch ----

NoBody == [json |-> "none", translated |-> Undefined, responses |-> <<>>]

\* fetch rejects (network error)
FetchRejected == [type |-> "reject", status |-> 0, body |-> NoBody]

HttpResponse(status, body) == [type |-> "http", status |-> status, body |-> body]

\* bodies of a 2xx answer of /api/v1/translate: not JSON, the JSON null, or
\* an object whose `translated` field is v (Undefined: no such field)
TranslateBodies ==
  {[json |-> "invalid", translated |-> Undefined, responses |-> <<>>],
   [json |-> "null", translated |-> Undefined, responses |-> <<>>]}
  \cup {[json |-> "object", translated |-> v, responses |-> <<>>] :
          v \in TranslatedValues}

ErrorStatuses == {400, 404, 500}

TranslateResponses ==
  {FetchRejected}
  \cup {HttpResponse(s, NoBody) : s \in ErrorStatuses}
  \cup {HttpResponse(200, b) : b \in TranslateBodies}

\* response.ok
ResponseOk(r) == r.type = "http" /\ r.status >= 200 /\ r.status <= 299

\* ---- state ----

VARIABLES
  batchRequests,     \* config.batch_requests
  persistent,        \* config.cache.persistent !== false
  storageAvailable,  \* this.localStorage !== null in LocalStorageCache
  localStorage,      \* window.localStorage: the entries under the prefix
  cacheKeys,         \* generateCacheKey of each input, worked out once
  defaultLanguage,   \* this.defaultLanguage
  now,               \* Date.now()
  cache,             \* this.cache: the Map of the LRUCache
  calls,             \* the translate calls that went on to the network
  issued,            \* how many of them there are
  translationQueue,  \* this.translationQueue, as the calls' numbers
  queueTimer,        \* this.queueTimer: 0 (null) or the timer's deadline
  timers,            \* the deadlines of the pending setTimeout(flushQueue)
  flushes,           \* the flushQueue activations awaiting the batch call
  queuedSince,       \* when the oldest item of the queue was enqueued
  flushCount,        \* how many batches have been flushed
  last               \* what the latest step did

vars == <<batchRequests, persistent, storageAvailable, localStorage, cacheKeys,
          defaultLanguage, now, cache, calls, issued, translationQueue, queueTimer, timers,
          flushes, queuedSince, flushCount, last>>

MaxQueuedCalls == QueueFlushSize + ExtraQueuedCalls

CallIds ==
  1..(IF MaxQueuedCalls > MaxIndividualCalls THEN MaxQueuedCalls
      ELSE MaxIndividualCalls)

CallLimit == IF batchRequests THEN MaxQueuedCalls ELSE MaxIndividualCalls

TimePoints == IF batchRequests THEN BatchTimePoints ELSE IndividualTimePoints

\* a request made for the calls ids can fail
CanFail(ids) == \E i \in ids : i <= FaultyCalls

NoCall ==
  [pc |-> "idle", text |-> <<>>, options |-> NoOptions, locale |-> <<>>,
   tone |-> <<>>, context |-> <<>>, cacheKey |-> <<>>, attempt |-> 0,
   startTime |-> 0, wake |-> 0, requests |-> 0, settles |-> 0,
   onRetry |-> "none", notified |-> <<>>]

NoResponse == [type |-> "none", status |-> 0, body |-> NoBody]

\* the record of one step: the handler that ran, the call it ran for, the
\* response of a fetch, what the step touched, the translate promises it
\* settled and the batch requests it sent
Step(act, call, resp, eff, returned, sent) ==
  [act |-> act, call |-> call, resp |-> resp, eff |-> eff,
   returned |-> returned, sent |-> sent]

\* a translate promise resolved with value at time t, when a lookup of the
\* call's key in the cache would have returned `cached`
Returned(i, c, value, how, t, cached) ==
  [call |-> i, text |-> c.text, cacheKey |-> c.cacheKey, value |-> value,
   how |-> how, requests |-> c.requests, elapsed |-> t - c.startTime,
   cached |-> cached, notified |-> c.notified]

\* a batch request with n entries, sent by the flush that `trigger` started
Sent(n, trigger, timer, since) ==
  [entries |-> n, trigger |-> trigger, timer |-> timer, since |-> since]

\* a call whose promise has been settled
Settled(c) == [NoCall EXCEPT !.pc = "done", !.settles = c.settles + 1]

\* ---- createCache ----

CacheMaxSize ==
  IF ConfigEntrySize # 0 THEN ConfigEntrySize ELSE DEFAULT_CACHE_SIZE

CacheTtl == (IF ConfigTtlHours # 0 THEN ConfigTtlHours ELSE 1) * MsPerHour

\* the maxSize getCacheStats reports
ReportedMaxSize == 500

\* LiveI18n.getCacheStats(), with the cache c
getCacheStats(c) == [size |-> Len(c), maxSize |-> ReportedMaxSize]

\* this.cache.get(key) and this.cache.set(key, value) at time t
GatewayCacheGet(c, key, t) == LRUCacheGet(c, key, CacheTtl, t)

GatewayCacheSet(c, key, value, t) ==
  LRUCacheSet(c, key, value, CacheMaxSize, t).cache

\* ---- translate: validation and the request's fields ----

\* the test of the length alone, without the test for an absent text
RejectsOnlyLong(text) == Len(text) > MaxTextLength

\* !text || text.length === 0, or text.length > 5000
InputRejected(text) ==
  ~Truthy(text) \/ Len(text) > MaxTextLength

ResolveLocale(options, dflt) ==
  OrElse(OrElse(options.language, dflt), detectLocale)

ResolveTone(options) ==
  Substring0(OrElse(options.tone, <<>>), MaxToneLength)

ResolveContext(options) ==
  Substring0(OrElse(options.context, <<>>), MaxContextLength)

\* the arguments translate passes to generateCacheKey for the accepted texts
KeyInputs ==
  {<<text, ResolveLocale(o, Undefined), ResolveContext(o), ResolveTone(o)>> :
     text \in AcceptedTexts, o \in OptionSet}

\* generateCacheKey(this.customerId, text, locale, context, tone), looked up
\* in the table keys of the values worked out before
CacheKeyFor(keys, text, locale, context, tone) ==
  IF <<text, locale, context, tone>> \in DOMAIN keys
    THEN keys[<<text, locale, context, tone>>]
    ELSE generateCacheKey(CustomerId, text, locale, context, tone)

\* ---- makeIndividualTranslation ----

\* a loop that never looks at the clock
TimeLimitNeverReached(startTime, t) == FALSE

\* the total time limit is reached
TimeLimitReached(startTime, t) == t - startTime >= maxTotalTime

\* error?.statusCode && error?.statusCode === 400
NotRetried(statusCode) == statusCode = 400

\* a sleep cut down to the whole of the remaining time
DelayWithoutReserve(attempt, timeElapsed) ==
  Min(Min(baseDelay * Pow2(attempt), MaxBackoff), maxTotalTime - timeElapsed)

\* the sleep before the next attempt, after attempt `attempt` failed
ActualDelay(attempt, timeElapsed) ==
  LET delay         == Min(baseDelay * Pow2(attempt), MaxBackoff)
      remainingTime == maxTotalTime - timeElapsed
  IN  Min(delay, remainingTime - RequestReserve)

RECURSIVE LoopIteration(_, _), AfterFailure(_, _, _)

\* the head of the for loop: the call either leaves the loop and returns
\* the text, or enters the try block, where onRetry(attempt) is called for
\* attempt > 0 and request number c.attempt starts (pc "fetch"); what
\* onRetry throws is caught by the catch block
LoopIteration(c, t) ==
  IF c.attempt < maxRetries /\ ~TimeLimitReached(c.startTime, t)
    THEN IF c.attempt > 0 /\ c.onRetry # "none"
           THEN LET n == [c EXCEPT !.notified = Append(@, c.attempt)]
                IN  IF c.onRetry = "throws"
                      THEN AfterFailure(n, 0, t)
                      ELSE [n EXCEPT !.pc = "fetch", !.requests = @ + 1]
           ELSE [c EXCEPT !.pc = "fetch", !.requests = @ + 1]
    ELSE [c EXCEPT !.pc = "return"]

\* error.statusCode of what makeTranslationRequest throws (0: none)
StatusCodeOf(r) == IF r.type = "http" /\ ~ResponseOk(r) THEN r.status ELSE 0

\* makeTranslationRequest returns a result whose `translated` can be read
RequestSucceeds(r) == ResponseOk(r) /\ r.body.json = "object"

\* result.translated
TranslatedOf(r) == r.body.translated

\* the catch block, for the call c at time t
AfterFailure(c, statusCode, t) ==
  LET isLastAttempt == c.attempt = maxRetries - 1
      timeElapsed   == t - c.startTime
      actualDelay   == ActualDelay(c.attempt, timeElapsed)
  IN  IF NotRetried(statusCode) THEN [c EXCEPT !.pc = "return"]
      ELSE IF isLastAttempt \/ timeElapsed >= maxTotalTime
        THEN [c EXCEPT !.pc = "return"]
      ELSE IF actualDelay > 0
        THEN [c EXCEPT !.pc = "sleep", !.wake = t + actualDelay]
      ELSE LoopIteration([c EXCEPT !.attempt = @ + 1], t)

\* the call i goes on as c2, or returns its text when c2 left the loop
Proceed(i, c2, act, resp, eff) ==
  /\ calls' = [calls EXCEPT ![i] = IF c2.pc = "return" THEN Settled(c2) ELSE c2]
  /\ last' = Step(act, i, resp,
                  eff \cup (IF c2.pc = "fetch" THEN {"fetch"} ELSE {})
                    \cup (IF c2.pc = "sleep" THEN {"sleep"} ELSE {}),
                  IF c2.pc = "return"
                    THEN {Returned(i, c2, c2.text, "fallback", now,
                                   GatewayCacheGet(cache', c2.cacheKey,
                                                   now).value)}
                    ELSE {},
                  {})

\* ---- the batching queue: addToQueue, flushQueue, translateBatch ----

\* a queue that flushes one item late
QueueOverFull(q) == Len(q) > QueueFlushSize

\* this.translationQueue.length >= 10
QueueFull(q) == Len(q) >= QueueFlushSize

\* an enqueue that arms a timer whether or not one is pending
ArmOnEveryEnqueue(qt) == TRUE

\* !this.queueTimer
NoTimerArmed(qt) == qt = 0

\* a flush that leaves the queue as it was
QueueKept(q) == q

\* this.translationQueue = [] in flushQueue
QueueAfterSwap(q) == <<>>

\* the indices translateBatch keeps (validIndices)
ValidIndices(items, cs) ==
  {k \in 1..Len(items) : ~(Len(cs[items[k]].text) > MaxTextLength)}

RequestedKeys(items, cs) ==
  {cs[items[k]].cacheKey : k \in ValidIndices(items, cs)}

SeqsUpTo(S, n) == UNION {[1..k -> S] : k \in 0..n}

\* bodies of a 2xx answer of /api/v1/translate_batch: not JSON, a JSON value
\* without a `responses` list ("null"), or a list of entries for the
\* requested keys in any order, with omissions and repetitions
BatchBodies(keys) ==
  {[json |-> "invalid", translated |-> Undefined, responses |-> <<>>],
   [json |-> "null", translated |-> Undefined, responses |-> <<>>]}
  \cup {[json |-> "object", translated |-> Undefined, responses |-> r] :
          r \in SeqsUpTo([cache_key : keys, translated : TranslatedValues],
                         Cardinality(keys))}

BatchResponses(keys) ==
  {FetchRejected}
  \cup {HttpResponse(s, NoBody) : s \in ErrorStatuses}
  \cup {HttpResponse(200, b) : b \in BatchBodies(keys)}

\* a lookup that takes the first entry, whatever its key
FindFirstEntry(responses, key) == IF responses = <<>> THEN 0 ELSE 1

\* batchResponse.responses.find(r => r.cache_key === key): its index, or 0
FindResponse(responses, key) ==
  LET hits == {j \in 1..Len(responses) : responses[j].cache_key = key}
  IN  IF hits = {} THEN 0 ELSE CHOOSE j \in hits : \A h \in hits : j <= h

\* what translateBatch returns for a 2xx answer with these responses
BatchResults(items, cs, responses) ==
  [k \in 1..Len(items) |->
     LET q == cs[items[k]]
         j == FindResponse(responses, q.cacheKey)
     IN  IF k \notin ValidIndices(items, cs) \/ j = 0 THEN q.text
         ELSE IF responses[j].translated = Undefined THEN q.text
         ELSE responses[j].translated]

\* the text of the first item, for every item
FirstOriginal(items, cs) == [k \in 1..Len(items) |-> cs[items[1]].text]

\* queuedTranslations.map(q => q.text)
Originals(items, cs) == [k \in 1..Len(items) |-> cs[items[k]].text]

\* result && result !== queueItem.text
IsTranslation(result, text) == Truthy(result) /\ result # text

RECURSIVE CacheWithEveryResult(_, _, _, _, _)
\* a loop that stores the result of every item, the original texts too
CacheWithEveryResult(c, items, cs, results, k) ==
  IF k > Len(items) THEN c
  ELSE CacheWithEveryResult(
         GatewayCacheSet(c, cs[items[k]].cacheKey, results[k], now),
         items, cs, results, k + 1)

RECURSIVE CacheAfterResolve(_, _, _, _, _)
\* the cache after the loop of flushQueue has handled the items k, k+1, ...
CacheAfterResolve(c, items, cs, results, k) ==
  IF k > Len(items) THEN c
  ELSE LET q == cs[items[k]]
       IN  CacheAfterResolve(
             IF IsTranslation(results[k], q.text)
               THEN GatewayCacheSet(c, q.cacheKey, results[k], now)
               ELSE c,
             items, cs, results, k + 1)

\* the loop of flushQueue that resolves each promise with its result
ResolveFlush(items, cs, results, fl, c, act, resp, eff) ==
  LET idx    == 1..Len(items)
      cached == {k \in idx : IsTranslation(results[k], cs[items[k]].text)}
  IN  /\ cache' = CacheAfterResolve(c, items, cs, results, 1)
      /\ calls' = [i \in CallIds |->
                     IF \E k \in idx : items[k] = i THEN Settled(cs[i])
                     ELSE cs[i]]
      /\ flushes' = fl
      /\ last' = Step(act, items[1], resp,
                      eff \cup (IF cached = {} THEN {} ELSE {"cacheSet"}),
                      {Returned(items[k], cs[items[k]],
                                IF k \in cached THEN results[k]
                                ELSE cs[items[k]].text,
                                IF k \in cached THEN "backend" ELSE "fallback",
                                now,
                                GatewayCacheGet(
                                  CacheAfterResolve(c, SubSeq(items, 1, k), cs,
                                                    results, 1),
                                  cs[items[k]].cacheKey, now).value) :
                         k \in idx},
                      {})

\* a flushQueue activation that has sent its batch request
\* a flush that carries the last item of the queue only
FlushOfLastItem(items) ==
  [items |-> <<items[Len(items)]>>, attempt |-> 0, pc |-> "fetch", wake |-> 0]

\* a flush that carries the first item of the queue only
FlushOfFirstItem(items) ==
  [items |-> <<items[1]>>, attempt |-> 0, pc |-> "fetch", wake |-> 0]

NewFlush(items) == [items |-> items, attempt |-> 0, pc |-> "fetch", wake |-> 0]

\* flushQueue up to the batch request, entered with the queue q, the calls
\* cs, the pending timers ts and the cache c
FlushQueue(q, cs, ts, c, trigger, timer, since, act, call, eff) ==
  /\ timers' = ts \ {queueTimer}
  /\ queueTimer' = 0
  /\ translationQueue' = QueueAfterSwap(q)
  /\ queuedSince' = 0
  /\ IF q = <<>>
       THEN /\ calls' = cs
            /\ cache' = c
            /\ UNCHANGED <<flushes, flushCount>>
            /\ last' = Step(act, call, NoResponse, eff, {}, {})
     ELSE IF ValidIndices(q, cs) = {}
       THEN /\ flushCount' = flushCount
            /\ ResolveFlush(q, cs, Originals(q, cs), flushes, c, act,
                            NoResponse, eff)
     ELSE /\ calls' = cs
          /\ cache' = c
          /\ flushes' = flushes \cup {NewFlush(q)}
          /\ flushCount' = flushCount + 1
          /\ last' = Step(act, call, NoResponse, eff \cup {"batchFetch"}, {},
                          {Sent(Cardinality(ValidIndices(q, cs)), trigger,
                                timer, since)})

\* addToQueue for the call i, after the cache lookup left the cache c
AddToQueue(i, c0, c) ==
  LET cs    == [calls EXCEPT ![i] = [c0 EXCEPT !.pc = "queued"]]
      q     == Append(translationQueue, i)
      since == IF translationQueue = <<>> THEN now ELSE queuedSince
      eff   == {"cacheGet", "enqueue"}
  IN  IF QueueFull(q)
        THEN FlushQueue(q, cs, timers, c, "size", queueTimer, since,
                        "translate", i, eff)
      ELSE /\ translationQueue' = q
           /\ queuedSince' = since
           /\ calls' = cs
           /\ cache' = c
           /\ UNCHANGED <<flushes, flushCount>>
           /\ last' = Step("translate", i, NoResponse, eff, {}, {})
           /\ IF NoTimerArmed(queueTimer)
                THEN /\ queueTimer' = now + QueueTimerDelay
                     /\ timers' = timers \cup {now + QueueTimerDelay}
                ELSE UNCHANGED <<queueTimer, timers>>

\* ---- the actions ----

AllTexts == RejectedTexts \cup AcceptedTexts

\* the texts call number n may translate: any text for the first calls,
\* then one text, or the text of a promise that has just been settled
TextsFor(n) ==
  IF n <= VariedCalls THEN AllTexts
  ELSE {TextHi} \cup {r.text : r \in last.returned}

\* the individual calls and the batch requests under way
Pending ==
  Cardinality({i \in CallIds : calls[i].pc \in {"fetch", "sleep"}})
    + Cardinality(flushes)

Init ==
  /\ batchRequests \in BOOLEAN
  /\ persistent = FALSE
  /\ storageAvailable = FALSE
  /\ localStorage = <<>>
  /\ cacheKeys = [x \in KeyInputs |->
                   generateCacheKey(CustomerId, x[1], x[2], x[3], x[4])]
  /\ defaultLanguage = Undefined
  /\ now = 0
  /\ cache = <<>>
  /\ calls = [i \in CallIds |-> NoCall]
  /\ issued = 0
  /\ translationQueue = <<>>
  /\ queueTimer = 0
  /\ timers = {}
  /\ flushes = {}
  /\ queuedSince = 0
  /\ flushCount = 0
  /\ last = Step("init", 0, NoResponse, {}, {}, {})

\* translate(text, options), up to its first await
Translate(text, options, onRetry) ==
  /\ UNCHANGED <<batchRequests, persistent, storageAvailable, localStorage,
                 cacheKeys,
                 defaultLanguage, now>>
  /\ IF InputRejected(text)
       THEN /\ UNCHANGED <<cache, calls, issued, translationQueue, queueTimer,
                           timers, flushes, queuedSince, flushCount>>
            /\ last' = Step("translate", 0, NoResponse, {},
                            {[call |-> 0, text |-> text, cacheKey |-> <<>>,
                              value |-> text, how |-> "invalid",
                              requests |-> 0, elapsed |-> 0,
                              cached |-> Undefined,
                              notified |-> <<>>]},
                            {})
     ELSE
       LET locale   == ResolveLocale(options, defaultLanguage)
           tone     == ResolveTone(options)
           context  == ResolveContext(options)
           cacheKey == CacheKeyFor(cacheKeys, text, locale, context, tone)
           got      == GatewayCacheGet(cache, cacheKey, now)
           i        == issued + 1
           c0       == [NoCall EXCEPT !.text = text, !.options = options,
                          !.locale = locale, !.tone = tone,
                          !.context = context, !.cacheKey = cacheKey]
       IN  IF Truthy(got.value)
             THEN /\ cache' = got.cache
                  /\ UNCHANGED <<calls, issued, translationQueue, queueTimer,
                                 timers, flushes, queuedSince, flushCount>>
                  /\ last' = Step("translate", 0, NoResponse, {"cacheGet"},
                                  {[call |-> 0, text |-> text,
                                    cacheKey |-> cacheKey, value |-> got.value,
                                    how |-> "hit", requests |-> 0,
                                    elapsed |-> 0, cached |-> got.value,
                                    notified |-> <<>>]},
                                  {})
           ELSE /\ issued < CallLimit
                /\ text \in TextsFor(i)
                /\ issued' = i
                /\ IF batchRequests
                     THEN /\ flushCount < MaxFlushes
                          /\ \/ flushCount = 0
                             \/ Len(translationQueue) < LateBatchSize
                          /\ AddToQueue(i, c0, got.cache)
                     ELSE /\ cache' = got.cache
                          /\ UNCHANGED <<translationQueue, queueTimer, timers,
                                         flushes, queuedSince, flushCount>>
                          /\ Proceed(i,
                                     LoopIteration(
                                       [c0 EXCEPT !.startTime = now,
                                                  !.onRetry = onRetry],
                                       now),
                                     "translate", NoResponse, {"cacheGet"})

\* the answer r to the request of the individual call i arrives
IndividualResponse(i, r) ==
  /\ calls[i].pc = "fetch"
  /\ UNCHANGED <<batchRequests, persistent, storageAvailable, localStorage,
                 cacheKeys,
                 defaultLanguage, now, issued,
                 translationQueue, queueTimer, timers, flushes, queuedSince,
                 flushCount>>
  /\ LET c == calls[i]
     IN  IF RequestSucceeds(r)
           THEN /\ cache' = GatewayCacheSet(cache, c.cacheKey, TranslatedOf(r),
                                            now)
                /\ calls' = [calls EXCEPT ![i] = Settled(c)]
                /\ last' = Step("response", i, r, {"cacheSet"},
                                {Returned(i, c, TranslatedOf(r), "backend",
                                          now,
                                          GatewayCacheGet(cache', c.cacheKey,
                                                          now).value)},
                                {})
         ELSE /\ CanFail({i})
              /\ cache' = cache
              /\ Proceed(i, AfterFailure(c, StatusCodeOf(r), now), "response",
                         r, {})

\* the sleep of the individual call i ends
IndividualWake(i) ==
  /\ calls[i].pc = "sleep"
  /\ now >= calls[i].wake
  /\ UNCHANGED <<batchRequests, persistent, storageAvailable, localStorage,
                 cacheKeys,
                 defaultLanguage, now, cache, issued,
                 translationQueue, queueTimer, timers, flushes, queuedSince,
                 flushCount>>
  /\ Proceed(i, LoopIteration([calls[i] EXCEPT !.attempt = @ + 1], now),
             "wake", NoResponse, {})

\* the queue timer with deadline d fires: setTimeout(() => this.flushQueue())
TimerFire(d) ==
  /\ d \in timers
  /\ now >= d
  /\ UNCHANGED <<batchRequests, persistent, storageAvailable, localStorage,
                 cacheKeys,
                 defaultLanguage, now, issued>>
  /\ FlushQueue(translationQueue, calls, timers \ {d}, cache, "timer", d,
                queuedSince, "timer", 0, {})

\* a batch failure that is retried whatever its status
BatchAlwaysRetried(statusCode) == TRUE

\* shouldRetry: false for a "Batch API error: <status>" with a 4xx status
BatchShouldRetry(statusCode) == ~(statusCode >= 400 /\ statusCode < 500)

\* translateBatchWithRetry: the answer r to the batch request of f arrives
BatchResponse(f, r) ==
  /\ f \in flushes
  /\ f.pc = "fetch"
  /\ UNCHANGED <<batchRequests, persistent, storageAvailable, localStorage,
                 cacheKeys,
                 defaultLanguage, now, issued,
                 translationQueue, queueTimer, timers, queuedSince,
                 flushCount>>
  /\ LET statusCode    == StatusCodeOf(r)
         isLastAttempt == f.attempt = batchMaxRetries
         shouldRetry   == BatchShouldRetry(statusCode)
     IN  IF RequestSucceeds(r)
           THEN ResolveFlush(f.items, calls,
                             BatchResults(f.items, calls, r.body.responses),
                             flushes \ {f}, cache, "batchResponse", r, {})
         ELSE /\ CanFail({f.items[k] : k \in 1..Len(f.items)})
              /\ IF isLastAttempt \/ ~shouldRetry
                   THEN ResolveFlush(f.items, calls, Originals(f.items, calls),
                                     flushes \ {f}, cache, "batchResponse",
                                     r, {})
                   ELSE /\ flushes' = (flushes \ {f})
                              \cup {[f EXCEPT !.pc = "sleep",
                                              !.wake = now + retryDelay]}
                        /\ UNCHANGED <<cache, calls>>
                        /\ last' = Step("batchResponse", f.items[1], r,
                                        {"sleep"}, {}, {})

\* translateBatchWithRetry: the sleep before the retry of f ends
BatchWake(f) ==
  /\ f \in flushes
  /\ f.pc = "sleep"
  /\ now >= f.wake
  /\ UNCHANGED <<batchRequests, persistent, storageAvailable, localStorage,
                 cacheKeys,
                 defaultLanguage, now, issued,
                 translationQueue, queueTimer, timers, queuedSince, flushCount>>
  /\ IF ValidIndices(f.items, calls) = {}
       THEN ResolveFlush(f.items, calls, Originals(f.items, calls),
                         flushes \ {f}, cache, "batchWake", NoResponse, {})
       ELSE /\ flushes' = (flushes \ {f})
                  \cup {[f EXCEPT !.pc = "fetch", !.attempt = @ + 1]}
            /\ UNCHANGED <<cache, calls>>
            /\ last' = Step("batchWake", f.items[1], NoResponse,
                            {"batchFetch"}, {},
                            {Sent(Cardinality(ValidIndices(f.items, calls)),
                                  "retry", 0, 0)})

\* the instants at which something is due: a timer, the end of a sleep, the
\* expiry of a cache entry
DueInstants ==
  timers
    \cup {calls[i].wake : i \in {j \in CallIds : calls[j].pc = "sleep"}}
    \cup {f.wake : f \in {g \in flushes : g.pc = "sleep"}}
    \cup {cache[k].timestamp + CacheTtl + 1 : k \in 1..Len(cache)}

\* the clock goes on to the next due instant, or jumps to a later instant
\* while a call is under way
TickTargets ==
  LET due == {t \in DueInstants : t > now}
  IN  {t \in due : \A u \in due : t <= u}
        \cup (IF Pending > 0 \/ translationQueue # <<>>
                THEN {t \in TimePoints : t > now}
                ELSE {})

\* time passes
Tick ==
  /\ \E t \in TickTargets : now' = t
  /\ UNCHANGED <<batchRequests, persistent, storageAvailable, localStorage,
                 cacheKeys,
                 defaultLanguage, cache, calls, issued,
                 translationQueue, queueTimer, timers, flushes, queuedSince,
                 flushCount>>
  /\ last' = Step("tick", 0, NoResponse, {}, {}, {})

DoTranslate ==
  \E text \in AllTexts, options \in OptionSet :
    Translate(text, options, "none")

DoIndividualResponse ==
  \E i \in CallIds, r \in TranslateResponses : IndividualResponse(i, r)

DoIndividualWake == \E i \in CallIds : IndividualWake(i)

DoTimerFire == \E d \in timers : TimerFire(d)

DoBatchResponse ==
  \E f \in flushes :
    \E r \in BatchResponses(RequestedKeys(f.items, calls)) : BatchResponse(f, r)

DoBatchWake == \E f \in flushes : BatchWake(f)

Next ==
  \/ DoTranslate
  \/ DoIndividualResponse
  \/ DoIndividualWake
  \/ DoTimerFire
  \/ DoBatchResponse
  \/ DoBatchWake
  \/ Tick

Spec == Init /\ [][Next]_vars

\* ---- the batching queue on its own, with a fair event loop ----

QueueInit == Init /\ batchRequests

DoEnqueue == \E options \in OptionSet : Translate(TextHi, options, "none")

\* the ways a batch request ends: fetch rejects, a status that is not
\* retried, one that is, or a 2xx answer (here with no entries)
BatchOutcomes ==
  {FetchRejected, HttpResponse(400, NoBody), HttpResponse(500, NoBody),
   HttpResponse(200, [json |-> "object", translated |-> Undefined,
                      responses |-> <<>>])}

DoBatchOutcome ==
  \E f \in flushes : \E r \in BatchOutcomes : BatchResponse(f, r)

QueueNext ==
  \/ DoEnqueue
  \/ DoTimerFire
  \/ DoBatchOutcome
  \/ DoBatchWake
  \/ Tick

\* the event loop runs every callback that is due, every batch request is
\* answered or fails, and time goes on
FairSpec ==
  /\ QueueInit /\ [][QueueNext]_vars
  /\ WF_vars(DoTimerFire)
  /\ WF_vars(DoBatchOutcome)
  /\ WF_vars(DoBatchWake)
  /\ WF_vars(Tick)

\* ---- individual calls with an onRetry observer ----

\* the third argument of translate: none, a function that returns, and a
\* function that throws
Observers == {"none", "returns", "throws"}

ObserverInit == Init /\ ~batchRequests

DoTranslateObserved ==
  \E onRetry \in Observers : Translate(TextHi, NoOptions, onRetry)

ObserverNext ==
  \/ DoTranslateObserved
  \/ DoIndividualResponse
  \/ DoIndividualWake
  \/ Tick

ObserverSpec == ObserverInit /\ [][ObserverNext]_vars

(***************************************************************************)
(* LocalStorageCache (src/src/cacheKey.ts, lines 85-312), and the cache on *)
(* its own: the operations LiveI18n and the application call on the cache  *)
(* that createCache made, an LRUCache or a LocalStorageCache.  The entries *)
(* of localStorage under the prefix are a sequence in the order of         *)
(* Object.keys, each with the key after the prefix and the parsed item.    *)
(***************************************************************************)

\* the size the cache is constructed with
StoreMaxSize == 2

KeyA == <<97>>

KeyB == <<98>>

KeyC == <<99>>

StoreKeys == {KeyA, KeyB, KeyC}

\* the values a key may be given: two for one key, the empty string for
\* another, one for the third
StoreValues(key) ==
  IF key = KeyA THEN {<<120>>, <<121>>}
  ELSE IF key = KeyB THEN {<<>>}
  ELSE {<<120>>}

\* the instants the clock of the cache on its own goes through
StoreTimePoints == {CacheTtl, CacheTtl + 1}

\* what localStorage.setItem does: it stores, or it throws for the quota
\* or for another reason
SetItemOutcomes == {"ok", "quota", "error"}

\* preloadCache(maxItems = 50)
PreloadMaxItems == 50

KeysOf(c) == {c[i].key : i \in 1..Len(c)}

\* localStorage.removeItem(prefix + key)
RemoveItem(st, key) ==
  IF IndexOfKey(st, key) = 0 THEN st ELSE DeleteAt(st, IndexOfKey(st, key))

\* localStorage.setItem(prefix + key, JSON.stringify({value, timestamp}))
SetItem(st, key, value, t) ==
  LET i    == IndexOfKey(st, key)
      item == [key |-> key, value |-> value, timestamp |-> t]
  IN  IF i = 0 THEN Append(st, item) ELSE [st EXCEPT ![i] = item]

\* an eviction handler that leaves localStorage alone
KeepEvicted(st, evicted) == st

\* onEvict, for the keys the memory cache evicted (none or one)
OnEvict(st, evicted) ==
  IF evicted = <<>> THEN st ELSE RemoveItem(st, evicted[1])

\* a get that returns what localStorage holds and leaves the memory cache
\* as the lookup left it
LocalStorageCacheGetWithoutWarming(c, st, key, ttl, maxSize, t) ==
  LET m == LRUCacheGet(c, key, ttl, t)
      i == IndexOfKey(st, key)
  IN  IF Truthy(m.value)
        THEN [cache |-> m.cache, storage |-> st, value |-> m.value,
              evicted |-> <<>>]
      ELSE IF i = 0
        THEN [cache |-> m.cache, storage |-> st, value |-> Undefined,
              evicted |-> <<>>]
      ELSE IF t - st[i].timestamp > ttl
        THEN [cache |-> m.cache, storage |-> DeleteAt(st, i),
              value |-> Undefined, evicted |-> <<>>]
      ELSE [cache |-> m.cache, storage |-> st, value |-> st[i].value,
            evicted |-> <<>>]

\* LocalStorageCache.get: the memory cache and localStorage after the call,
\* the value returned and the keys evicted from the memory cache
LocalStorageCacheGet(c, st, key, ttl, maxSize, t) ==
  LET m == LRUCacheGet(c, key, ttl, t)
      i == IndexOfKey(st, key)
  IN  IF Truthy(m.value)
        THEN [cache |-> m.cache, storage |-> st, value |-> m.value,
              evicted |-> <<>>]
      ELSE IF i = 0
        THEN [cache |-> m.cache, storage |-> st, value |-> Undefined,
              evicted |-> <<>>]
      ELSE IF t - st[i].timestamp > ttl
        THEN [cache |-> m.cache, storage |-> DeleteAt(st, i),
              value |-> Undefined, evicted |-> <<>>]
      ELSE LET s == LRUCacheSet(m.cache, key, st[i].value, maxSize, t)
           IN  [cache |-> s.cache, storage |-> OnEvict(st, s.evicted),
                value |-> st[i].value, evicted |-> s.evicted]

\* a cleanup that removes every item
ClearAllItems(st, ttl, t) == <<>>

\* clearExpiredItems
ClearExpiredItems(st, ttl, t) ==
  SelectSeq(st, LAMBDA e : ~(t - e.timestamp > ttl))

\* LocalStorageCache.set, when setItem ends with outcome
LocalStorageCacheSet(c, st, key, value, ttl, maxSize, t, outcome) ==
  LET s   == LRUCacheSet(c, key, value, maxSize, t)
      st1 == OnEvict(st, s.evicted)
  IN  [cache   |-> s.cache,
       storage |-> IF outcome = "ok" THEN SetItem(st1, key, value, t)
                   ELSE IF outcome = "quota"
                     THEN ClearExpiredItems(st1, ttl, t)
                   ELSE st1,
       value   |-> Undefined,
       evicted |-> s.evicted]

RECURSIVE PreloadLoop(_, _, _, _, _, _, _, _)
\* the loop of preloadCache over the keys fullKeys[k], fullKeys[k+1], ...
PreloadLoop(c, st, fullKeys, k, ttl, maxSize, t, evicted) ==
  IF k > Len(fullKeys)
    THEN [cache |-> c, storage |-> st, value |-> Undefined,
          evicted |-> evicted]
  ELSE LET i == IndexOfKey(st, fullKeys[k])
       IN  IF i = 0
             THEN PreloadLoop(c, st, fullKeys, k + 1, ttl, maxSize, t, evicted)
           ELSE IF t - st[i].timestamp <= ttl
             THEN LET s == LRUCacheSet(c, fullKeys[k], st[i].value, maxSize, t)
                  IN  PreloadLoop(s.cache, OnEvict(st, s.evicted), fullKeys,
                                  k + 1, ttl, maxSize, t,
                                  evicted \o s.evicted)
           ELSE PreloadLoop(c, DeleteAt(st, i), fullKeys, k + 1, ttl, maxSize,
                            t, evicted)

\* LocalStorageCache.preloadCache(maxItems)
PreloadCache(c, st, ttl, maxSize, t, maxItems) ==
  PreloadLoop(c, st,
              [k \in 1..Min(Len(st), maxItems) |-> st[k].key],
              1, ttl, maxSize, t, <<>>)

\* LocalStorageCache.get when this.localStorage is null
MemoryOnlyGet(c, key, ttl, t) ==
  LET m == LRUCacheGet(c, key, ttl, t)
  IN  [cache |-> m.cache,
       value |-> IF Truthy(m.value) THEN m.value ELSE Undefined]

\* LocalStorageCache.set when this.localStorage is null
MemoryOnlySet(c, key, value, maxSize, t) ==
  LRUCacheSet(c, key, value, maxSize, t)

\* ---- the cache on its own: state and actions ----

\* the record of one operation on the cache: the operation, its key, the
\* value it returned, the keys the memory cache evicted, and the keys of
\* the memory cache from the least to the most recently used, where a use
\* is an insertion or a get that returned a value
CacheStep(act, key, value, evicted, usage) ==
  [act |-> act, key |-> key, value |-> value, evicted |-> evicted,
   usage |-> usage]

\* the order of use after an operation that used the keys `used`, in
\* order, and left the keys `present` in the memory cache
UsageAfter(usage, used, present) ==
  SelectSeq(SelectSeq(usage, LAMBDA k : \A j \in 1..Len(used) : used[j] # k)
              \o used,
            LAMBDA k : k \in present)

engineVars == <<batchRequests, cacheKeys, defaultLanguage, calls, issued,
                translationQueue, queueTimer, timers, flushes, queuedSince,
                flushCount>>

\* a browser with nothing stored yet, and a cache just constructed
CacheInit ==
  /\ persistent \in BOOLEAN
  /\ storageAvailable \in BOOLEAN
  /\ storageAvailable => persistent
  /\ localStorage = <<>>
  /\ cache = <<>>
  /\ now = 0
  /\ last = CacheStep("init", <<>>, Undefined, <<>>, <<>>)
  /\ batchRequests = FALSE
  /\ cacheKeys = <<>>
  /\ defaultLanguage = Undefined
  /\ calls = [i \in CallIds |-> NoCall]
  /\ issued = 0
  /\ translationQueue = <<>>
  /\ queueTimer = 0
  /\ timers = {}
  /\ flushes = {}
  /\ queuedSince = 0
  /\ flushCount = 0

\* the entry of key in the memory cache has not expired
LiveInMemory(key) ==
  \E i \in 1..Len(cache) :
    cache[i].key = key /\ ~(now - cache[i].timestamp > CacheTtl)

\* this.cache.get(key)
StoreGet(key) ==
  /\ UNCHANGED <<engineVars, persistent, storageAvailable, now>>
  /\ IF persistent /\ storageAvailable
       THEN LET r == LocalStorageCacheGet(cache, localStorage, key, CacheTtl,
                                          StoreMaxSize, now)
            IN  /\ cache' = r.cache
                /\ localStorage' = r.storage
                /\ last' = CacheStep("get", key, r.value, r.evicted, <<>>)
     ELSE IF persistent
       THEN LET r == MemoryOnlyGet(cache, key, CacheTtl, now)
            IN  /\ cache' = r.cache
                /\ localStorage' = localStorage
                /\ last' = CacheStep("get", key, r.value, <<>>, <<>>)
       ELSE LET r == LRUCacheGet(cache, key, CacheTtl, now)
            IN  /\ cache' = r.cache
                /\ localStorage' = localStorage
                /\ last' = CacheStep("get", key, r.value, <<>>,
                                     UsageAfter(last.usage,
                                                IF LiveInMemory(key)
                                                  THEN <<key>> ELSE <<>>,
                                                KeysOf(r.cache)))

\* this.cache.set(key, value), when localStorage.setItem ends with outcome
StoreSet(key, value, outcome) ==
  /\ UNCHANGED <<engineVars, persistent, storageAvailable, now>>
  /\ IF persistent /\ storageAvailable
       THEN LET r == LocalStorageCacheSet(cache, localStorage, key, value,
                                          CacheTtl, StoreMaxSize, now, outcome)
            IN  /\ cache' = r.cache
                /\ localStorage' = r.storage
                /\ last' = CacheStep("set", key, value, r.evicted, <<>>)
     ELSE IF persistent
       THEN LET r == MemoryOnlySet(cache, key, value, StoreMaxSize, now)
            IN  /\ outcome = "ok"
                /\ cache' = r.cache
                /\ localStorage' = localStorage
                /\ last' = CacheStep("set", key, value, r.evicted, <<>>)
       ELSE LET r == LRUCacheSet(cache, key, value, StoreMaxSize, now)
            IN  /\ outcome = "ok"
                /\ cache' = r.cache
                /\ localStorage' = localStorage
                /\ last' = CacheStep("set", key, value, r.evicted,
                                     UsageAfter(last.usage,
                                                IF key \in KeysOf(cache)
                                                  THEN <<>> ELSE <<key>>,
                                                KeysOf(r.cache)))

\* this.cache.clear()
StoreClear ==
  /\ UNCHANGED <<engineVars, persistent, storageAvailable, now>>
  /\ cache' = <<>>
  /\ localStorage' = IF storageAvailable THEN <<>> ELSE localStorage
  /\ last' = CacheStep("clear", <<>>, Undefined, <<>>, <<>>)

\* the arguments of preloadCache: one item, or the default
PreloadItemCounts == {1, PreloadMaxItems}

\* preloadCache(maxItems)
StorePreload(maxItems) ==
  /\ persistent
  /\ UNCHANGED <<engineVars, persistent, storageAvailable, now>>
  /\ LET r == IF storageAvailable
                THEN PreloadCache(cache, localStorage, CacheTtl, StoreMaxSize,
                                  now, maxItems)
              ELSE [cache |-> cache, storage |-> localStorage,
                    evicted |-> <<>>]
     IN  /\ cache' = r.cache
         /\ localStorage' = r.storage
         /\ last' = [act |-> "preload", key |-> <<>>, value |-> Undefined,
                     evicted |-> r.evicted, usage |-> <<>>,
                     maxItems |-> maxItems]

DoStorePreload == \E maxItems \in PreloadItemCounts : StorePreload(maxItems)

\* the page is loaded again: a new cache is constructed, and localStorage
\* is what it was
StoreRestart ==
  /\ UNCHANGED <<engineVars, persistent, storageAvailable, now, localStorage>>
  /\ cache' = <<>>
  /\ last' = CacheStep("restart", <<>>, Undefined, <<>>, <<>>)

\* time passes
StoreTick ==
  /\ \E t \in StoreTimePoints : t > now /\ now' = t
  /\ UNCHANGED <<engineVars, persistent, storageAvailable, localStorage,
               cache>>
  /\ last' = CacheStep("tick", <<>>, Undefined, <<>>, last.usage)

DoStoreGet == \E key \in StoreKeys : StoreGet(key)

DoStoreSet ==
  \E key \in StoreKeys, outcome \in SetItemOutcomes :
    \E value \in StoreValues(key) : StoreSet(key, value, outcome)

CacheNext ==
  \/ DoStoreGet
  \/ DoStoreSet
  \/ StoreClear
  \/ DoStorePreload
  \/ StoreRestart
  \/ StoreTick

CacheSpec == CacheInit /\ [][CacheNext]_vars

\* the cache on its own while every localStorage.setItem succeeds
DoStoreSetStored ==
  \E key \in StoreKeys : \E value \in StoreValues(key) :
    StoreSet(key, value, "ok")

MirrorNext ==
  \/ DoStoreGet
  \/ DoStoreSetStored
  \/ StoreClear
  \/ DoStorePreload
  \/ StoreRestart
  \/ StoreTick

MirrorSpec == CacheInit /\ [][MirrorNext]_vars

(***************************************************************************)
(* generateCacheKey on its own: the key of some inputs next to the key of  *)
(* the same inputs with one of them padded, in another letter case, or     *)
(* left out.                                                               *)
(***************************************************************************)

\* "Hi" and "a B"
KeyTexts == {<<72, 105>>, <<97, 32, 66>>}

\* "en-US" and "es"
KeyLocales == {<<101, 110, 45, 85, 83>>, <<101, 115>>}

\* "" and "Ui"
KeyContexts == {<<>>, <<85, 105>>}

\* "" and "Warm"
KeyTones == {<<>>, <<87, 97, 114, 109>>}

KeyFields == {"text", "locale", "context", "tone"}

KeyVariations == {"padLeft", "padRight", "upper", "lower", "omit"}

UpperChar(c) == IF c >= 97 /\ c <= 122 THEN c - 32 ELSE c

ToUpperCase(s) == [i \in 1..Len(s) |-> UpperChar(s[i])]

\* the argument s written another way; an argument that is left out is
\* undefined
Vary(s, how) ==
  CASE how = "padLeft"  -> <<32>> \o s
    [] how = "padRight" -> s \o <<10>>
    [] how = "upper"    -> ToUpperCase(s)
    [] how = "lower"    -> ToLowerCase(s)
    [] how = "omit"     -> Undefined

\* a parameter with a default value: context: string = ''
DefaultTo(v, d) == IF v = Undefined THEN d ELSE v

\* generateCacheKey(customerId, text, locale, context?, tone?)
GenerateCacheKeyCall(x) ==
  generateCacheKey(CustomerId, x.text, x.locale, DefaultTo(x.context, <<>>),
                   DefaultTo(x.tone, <<>>))

KeyInit == CacheInit /\ ~persistent

\* generateCacheKey is called for some inputs and for their variation
KeyStep ==
  \E text \in KeyTexts, locale \in KeyLocales, context \in KeyContexts,
     tone \in KeyTones, field \in KeyFields, how \in KeyVariations :
    LET x == [text |-> text, locale |-> locale, context |-> context,
              tone |-> tone]
        y == [x EXCEPT ![field] = Vary(x[field], how)]
    IN  /\ how = "omit" => (field \in {"context", "tone"} /\ x[field] = <<>>)
        /\ last' = [act |-> "key", inputs |-> x, field |-> field,
                    how |-> how, varied |-> y,
                    key |-> GenerateCacheKeyCall(x),
                    variedKey |-> GenerateCacheKeyCall(y)]
        /\ UNCHANGED <<engineVars, persistent, storageAvailable, localStorage,
                       cache, now>>

KeyNext == KeyStep

KeySpec == KeyInit /\ [][KeyNext]_vars

(***************************************************************************)
(* The request payloads on their own: translate works out the tone, the    *)
(* context and the cache key of a call, and the payload of the call is     *)
(* built later, by makeTranslationRequest from the values translate passed *)
(* on, or by translateBatch from the options of the queued item.           *)
(***************************************************************************)

\* options.tone: undefined, "", "warm", and 50 and 51 letters
ToneOptions ==
  {Undefined, <<>>, <<119, 97, 114, 109>>,
   [i \in 1..MaxToneLength |-> 116], [i \in 1..(MaxToneLength + 1) |-> 116]}

\* options.context: undefined, "", "ui", and 500 and 501 letters
ContextOptions ==
  {Undefined, <<>>, <<117, 105>>,
   [i \in 1..MaxContextLength |-> 99],
   [i \in 1..(MaxContextLength + 1) |-> 99]}

PayloadOptions ==
  [language : {Undefined}, tone : ToneOptions, context : ContextOptions]

PayloadTexts == {TextHi, Hola}

\* the body makeTranslationRequest sends
IndividualPayload(text, locale, tone, context, cacheKey) ==
  [text |-> Substring0(text, MaxTextLength), locale |-> locale,
   tone |-> tone, context |-> context, cache_key |-> cacheKey]

\* an entry with the tone and the context as the options have them
UntruncatedBatchPayload(text, options, dflt, cacheKey) ==
  [text |-> text,
   locale |-> OrElse(OrElse(options.language, dflt), detectLocale),
   tone |-> OrElse(options.tone, <<>>),
   context |-> OrElse(options.context, <<>>),
   cache_key |-> cacheKey]

\* the entry translateBatch pushes for a queued item
BatchPayload(text, options, dflt, cacheKey) ==
  [text |-> text,
   locale |-> OrElse(OrElse(options.language, dflt), detectLocale),
   tone |-> Substring0(OrElse(options.tone, <<>>), MaxToneLength),
   context |-> Substring0(OrElse(options.context, <<>>), MaxContextLength),
   cache_key |-> cacheKey]

PayloadInit == CacheInit /\ ~persistent

\* translate, up to the cache key
PayloadKeyed ==
  /\ last.act # "keyed"
  /\ \E batch \in BOOLEAN, text \in PayloadTexts, options \in PayloadOptions :
       LET locale  == ResolveLocale(options, defaultLanguage)
           tone    == ResolveTone(options)
           context == ResolveContext(options)
       IN  last' = [act |-> "keyed", batch |-> batch, text |-> text,
                    options |-> options, locale |-> locale, tone |-> tone,
                    context |-> context,
                    cacheKey |-> generateCacheKey(CustomerId, text, locale,
                                                  context, tone)]
  /\ UNCHANGED <<engineVars, persistent, storageAvailable, localStorage,
                 cache, now>>

\* the payload of the call is built
PayloadSent ==
  /\ last.act = "keyed"
  /\ last' = [act |-> "sent", batch |-> last.batch, text |-> last.text,
              options |-> last.options, locale |-> last.locale,
              tone |-> last.tone, context |-> last.context,
              cacheKey |-> last.cacheKey,
              payload |-> IF last.batch
                            THEN BatchPayload(last.text, last.options,
                                              defaultLanguage, last.cacheKey)
                            ELSE IndividualPayload(last.text, last.locale,
                                                   last.tone, last.context,
                                                   last.cacheKey)]
  /\ UNCHANGED <<engineVars, persistent, storageAvailable, localStorage,
                 cache, now>>

PayloadNext == PayloadKeyed \/ PayloadSent

PayloadSpec == PayloadInit /\ [][PayloadNext]_vars

(***************************************************************************)
(* The catch block of makeIndividualTranslation on its own: attempt n of a *)
(* call that started at 0 fails, with a status that is retried, when the   *)
(* clock shows e.                                                          *)
(***************************************************************************)

\* the attempts that are not the last one
BackoffAttempts == 0..(maxRetries - 2)

\* the instants inside the budget at which an attempt fails
BackoffElapsed ==
  {100 * k : k \in 0..49} \cup {4850, 4899, 4901, 4950, 4999}

\* error.statusCode of a fetch that rejected, and of a 500 and a 404 answer
BackoffStatuses == {0, 500, 404}

BackoffInit == CacheInit /\ ~persistent

\* the attempt fails
BackoffStep ==
  /\ \E n \in BackoffAttempts, e \in BackoffElapsed, s \in BackoffStatuses :
       LET c == [NoCall EXCEPT !.pc = "fetch", !.text = TextHi,
                               !.attempt = n, !.requests = n + 1]
       IN  last' = [act |-> "failed", attempt |-> n, elapsed |-> e,
                    status |-> s, after |-> AfterFailure(c, s, e)]
  /\ UNCHANGED <<engineVars, persistent, storageAvailable, localStorage,
                 cache, now>>

BackoffNext == BackoffStep

BackoffSpec == BackoffInit /\ [][BackoffNext]_vars

(***************************************************************************)
(* simpleHash on its own (src/src/cacheKey.ts, lines 73-84): the digest of *)
(* some strings, among them strings whose hash is negative, is -1 and is   *)
(* -2^31.                                                                  *)
(***************************************************************************)

\* code units of the short strings: "a", "z", "0", " " and ￿
HashLetters == {97, 122, 48, 32, 65535}

\* "hello" (hash 05e918d2), "translation" (hash 9249f2b1, negative),
\* "zsjpxag" (hash ffffffff, -1) and "xfjfxtf" (hash 80000000, -2^31)
HashLongTexts == {<<104, 101, 108, 108, 111>>,
                  <<116, 114, 97, 110, 115, 108, 97, 116, 105, 111, 110>>,
                  <<122, 115, 106, 112, 120, 97, 103>>,
                  <<120, 102, 106, 102, 120, 116, 102>>}

HashTexts ==
  {<<>>} \cup {<<a>> : a \in HashLetters}
         \cup {<<a, b>> : a \in HashLetters, b \in HashLetters}
         \cup {<<a, b, c>> : a \in HashLetters, b \in HashLetters,
                             c \in HashLetters}
         \cup HashLongTexts

HashInit == CacheInit /\ ~persistent

\* simpleHash(str) is called; the 32-bit word of the loop is kept with the
\* digest
HashCall ==
  \E str \in HashTexts :
    /\ last' = [act |-> "hash", str |-> str,
                word |-> HashRange([hi |-> 0, lo |-> 0], str, 1, Len(str)),
                digest |-> simpleHash(str)]
    /\ UNCHANGED <<engineVars, persistent, storageAvailable, localStorage,
                   cache, now>>

HashNext == HashCall

HashSpec == HashInit /\ [][HashNext]_vars

(***************************************************************************)
(* The locale of a request on its own: translate works out the locale and  *)
(* the cache key of a call, updateDefaultLanguage may be called, and the   *)
(* payload of the call is built later.                                     *)
(***************************************************************************)

\* "es" and "fr"
LocaleEs == <<101, 115>>

LocaleFr == <<102, 114>>

\* the arguments of updateDefaultLanguage
DefaultLanguages == {Undefined, LocaleEs, LocaleFr}

\* options.language undefined or "de", options.tone undefined or "warm"
LocaleOptions ==
  [language : {Undefined, <<100, 101>>},
   tone : {Undefined, <<119, 97, 114, 109>>},
   context : {Undefined}]

LocaleInit == CacheInit /\ ~persistent

\* translate, up to the cache key
LocaleKeyed ==
  /\ last.act # "keyed"
  /\ \E batch \in BOOLEAN, text \in PayloadTexts, options \in LocaleOptions :
       LET locale  == ResolveLocale(options, defaultLanguage)
           tone    == ResolveTone(options)
           context == ResolveContext(options)
       IN  last' = [act |-> "keyed", batch |-> batch, text |-> text,
                    options |-> options, locale |-> locale, tone |-> tone,
                    context |-> context,
                    cacheKey |-> generateCacheKey(CustomerId, text, locale,
                                                  context, tone)]
  /\ UNCHANGED <<engineVars, persistent, storageAvailable, localStorage,
                 cache, now>>

\* updateDefaultLanguage(language)
UpdateDefaultLanguage(language) ==
  /\ language # defaultLanguage
  /\ defaultLanguage' = language
  /\ UNCHANGED <<batchRequests, cacheKeys, calls, issued, translationQueue,
                 queueTimer, timers, flushes, queuedSince, flushCount,
                 persistent, storageAvailable, localStorage, cache, now,
                 last>>

DoUpdateDefaultLanguage ==
  \E language \in DefaultLanguages : UpdateDefaultLanguage(language)

\* the payload of the call is built: by makeTranslationRequest from the
\* values translate passed on, by translateBatch from the queued item
LocaleSent ==
  /\ last.act = "keyed"
  /\ last' = [act |-> "sent", batch |-> last.batch, text |-> last.text,
              options |-> last.options, locale |-> last.locale,
              tone |-> last.tone, context |-> last.context,
              cacheKey |-> last.cacheKey,
              payload |-> IF last.batch
                            THEN BatchPayload(last.text, last.options,
                                              defaultLanguage, last.cacheKey)
                            ELSE IndividualPayload(last.text, last.locale,
                                                   last.tone, last.context,
                                                   last.cacheKey)]
  /\ UNCHANGED <<engineVars, persistent, storageAvailable, localStorage,
                 cache, now>>

LocaleNext == LocaleKeyed \/ DoUpdateDefaultLanguage \/ LocaleSent

LocaleSpec == LocaleInit /\ [][LocaleNext]_vars

\* ---- properties ----

\* C1: translate never rejects: every promise a step settles is resolved
\* with a string, and with the caller's own text whenever the step obtained
\* no translation (rejected input, or a request that failed for good).
C1_ResolvesToString ==
  \A r \in last.returned :
    /\ IsString(r.value)
    /\ r.how \in {"invalid", "fallback"} => r.value = r.text

\* C2: an enqueued item is in exactly one place (the queue or one flush
\* awaiting its batch call), its promise is settled at most once, and, every
\* batch call being answered or failing, it is settled in the end.
C2_SettledExactlyOnce ==
  /\ [](\A i \in CallIds :
          /\ calls[i].settles <= 1
          /\ calls[i].pc = "queued" =>
               Cardinality({k \in 1..Len(translationQueue) :
                              translationQueue[k] = i})
                 + Cardinality({<<f, k>> \in flushes \X (1..QueueFlushSize) :
                                  k <= Len(f.items) /\ f.items[k] = i}) = 1)
  /\ \A i \in CallIds : (calls[i].pc = "queued") ~> (calls[i].pc = "done")

\* a batch answer settles its items while another item waits in the queue
C2_Witness ==
  /\ last.act = "batchResponse"
  /\ last.returned # {}
  /\ \A r \in last.returned : calls[r.call].settles = 1
  /\ translationQueue # <<>>

\* C3: a translate of an empty, absent or over-long text returns that text
\* and touches nothing: no cache read or write, no enqueue, no request.
C3_RejectedInputIsInert ==
  [][LET texts == {r.text : r \in last'.returned}
                    \cup (IF last'.call \in CallIds
                            THEN {calls'[last'.call].text}
                            ELSE {})
     IN  (/\ last'.act = "translate"
          /\ \E t \in texts : t = Undefined \/ t = <<>> \/ Len(t) > 5000)
           => /\ last'.eff = {}
              /\ last'.sent = {}
              /\ last'.returned # {}
              /\ \A r \in last'.returned : r.value = r.text
              /\ UNCHANGED <<cache, calls, issued, translationQueue,
                             queueTimer, timers, flushes>>]_vars

\* an over-long text is turned away while the cache holds an entry and a
\* request is under way
C3_Witness ==
  /\ last.act = "translate"
  /\ \E r \in last.returned : Len(r.text) > 5000 /\ r.value = r.text
  /\ cache # <<>>
  /\ Pending > 0

\* C4: a translate whose key has a live entry in the cache returns the
\* entry's value and neither enqueues nor sends a request.
C4_LiveEntryIsServed ==
  [][LET keys == {r.cacheKey : r \in last'.returned}
                   \cup (IF last'.call \in CallIds
                           THEN {calls'[last'.call].cacheKey}
                           ELSE {})
     IN  \A k \in 1..Len(cache) :
           (/\ last'.act = "translate"
            /\ cache[k].key \in keys
            /\ now - cache[k].timestamp <= CacheTtl)
             => /\ last'.eff \cap {"enqueue", "fetch", "batchFetch"} = {}
                /\ last'.returned # {}
                /\ \A r \in last'.returned : r.value = cache[k].value]_vars

\* C5: an individual call makes at most 5 requests, a successful answer ends
\* it with that answer's translated value and without a further request or
\* sleep, and a call that has returned does nothing more, whatever the other
\* calls do.
C5_AtMostFiveRequests ==
  [][~batchRequests =>
       /\ \A i \in CallIds : calls'[i].requests <= 5
       /\ \A r \in last'.returned : r.requests <= 5
       /\ \A i \in CallIds : calls[i].pc = "done" => calls'[i] = calls[i]
       /\ (/\ last'.act = "response"
           /\ last'.resp.type = "http"
           /\ last'.resp.status \in 200..299
           /\ last'.resp.body.json = "object")
            => /\ last'.eff \cap {"fetch", "sleep"} = {}
               /\ calls'[last'.call].pc = "done"
               /\ \E r \in last'.returned :
                    /\ last'.returned = {r}
                    /\ r.call = last'.call
                    /\ r.value = last'.resp.body.translated]_vars

\* the fifth request of a call succeeds while another call awaits its answer
C5_Witness ==
  /\ ~batchRequests
  /\ last.act = "response"
  /\ \E r \in last.returned : r.how = "backend" /\ r.requests = 5
  /\ \E j \in CallIds : j # last.call /\ calls[j].pc = "fetch"

\* C6: in individual mode an answer with a status from 400 to 499 ends the
\* call at once: it returns its text, with no request, sleep or cache write.
C6_ClientErrorIsTerminal ==
  (/\ ~batchRequests
   /\ last.act = "response"
   /\ last.resp.type = "http"
   /\ last.resp.status \in 400..499)
    => /\ last.eff = {}
       /\ \E r \in last.returned : r.call = last.call /\ r.value = r.text

\* C7: in individual mode no request starts 5000 ms or more after the call's
\* first, a call goes on after a failure only within both budgets, and a
\* call that gives up returns its text.
C7_NoAttemptAfterBudget ==
  ~batchRequests =>
    /\ "fetch" \in last.eff => now - calls[last.call].startTime < 5000
    /\ \A i \in CallIds :
         calls[i].pc = "sleep" =>
           calls[i].requests < 5 /\ calls[i].wake - calls[i].startTime < 5000
    /\ (/\ last.act \in {"response", "wake"}
        /\ calls[last.call].pc = "done"
        /\ ~(ResponseOk(last.resp) /\ last.resp.body.json = "object"))
         => \E r \in last.returned :
              /\ r.call = last.call
              /\ r.value = r.text
              /\ r.requests = 5 \/ r.elapsed >= 5000 \/ last.resp.status = 400

\* a sleep ends after the time budget has run out, before the fifth request
C7_Witness ==
  /\ ~batchRequests
  /\ last.act = "wake"
  /\ \E r \in last.returned :
       r.elapsed >= 5000 /\ r.requests < 5 /\ r.value = r.text

\* C8: in individual mode a call whose requests keep failing returns its
\* text about 5000 ms after its first request began (here: within 6000 ms),
\* however long the requests take.
C8_ReturnsWithinBudget ==
  ~batchRequests =>
    \A r \in last.returned : r.how = "fallback" => r.elapsed <= 6000

\* C9: a batch request carries from 1 to 10 entries, the queue never holds
\* 10 items between steps, and the enqueue of the tenth item empties the
\* queue in its own step.
C9_BatchSizeBounded ==
  /\ Len(translationQueue) < 10
  /\ \A s \in last.sent :
       /\ s.entries \in 1..10
       /\ s.trigger = "size" =>
            /\ last.act = "translate"
            /\ s.entries = 10
            /\ translationQueue = <<>>

\* the tenth enqueue sends a batch of 10
C9_Witness ==
  /\ last.act = "translate"
  /\ \E s \in last.sent : s.trigger = "size" /\ s.entries = 10
  /\ translationQueue = <<>>

\* C10: while items wait in the queue the one pending timer is the one armed
\* when the first of them was enqueued, due 50 ms later; no later enqueue
\* moves it, and a flush by timer or by size is one that this timer, due
\* 50 ms after the first item of the batch, starts or would have started.
C10_FlushWithinTimerPeriod ==
  /\ timers \subseteq {queueTimer}
  /\ translationQueue # <<>> =>
       /\ queueTimer \in timers
       /\ queueTimer = queuedSince + 50
  /\ \A s \in last.sent :
       s.trigger \in {"timer", "size"} =>
         s.timer = s.since + 50

\* an item joins, at a later instant, a queue whose first item still waits,
\* and the timer of the first item stays as it was
C10_Witness ==
  /\ last.act = "translate"
  /\ Len(translationQueue) >= 2
  /\ now > queuedSince
  /\ queueTimer = queuedSince + 50

\* C11: a flush calls the batch endpoint at most twice; the second call is
\* made only by the wake-up 500 ms after a first call failed with something
\* other than a status from 400 to 499; a first call that failed with such a
\* status, and a call that succeeded, end the flush without another call.
C11_BatchRetriedAtMostOnce ==
  batchRequests =>
    /\ \A f \in flushes : f.attempt \in {0, 1}
    /\ \A s \in last.sent :
         s.trigger = "retry" =>
           /\ last.act = "batchWake"
           /\ \E f \in flushes :
                /\ f.items[1] = last.call
                /\ f.pc = "fetch" /\ f.attempt = 1 /\ now >= f.wake
    /\ (last.act = "batchResponse" /\ "sleep" \in last.eff) =>
         /\ ~(last.resp.type = "http" /\ last.resp.status \in 200..299
                /\ last.resp.body.json = "object")
         /\ ~(last.resp.type = "http" /\ last.resp.status \in 400..499)
         /\ \E f \in flushes :
              /\ f.items[1] = last.call
              /\ f.pc = "sleep" /\ f.attempt = 0 /\ f.wake = now + 500
    /\ (/\ last.act = "batchResponse"
        /\ last.resp.type = "http"
        /\ \/ last.resp.status \in 400..499
           \/ last.resp.status \in 200..299 /\ last.resp.body.json = "object")
         => /\ last.eff \cap {"sleep", "batchFetch"} = {}
            /\ last.sent = {}
            /\ last.returned # {}
            /\ \A f \in flushes : f.items[1] # last.call

\* the retry of a flush is sent, 500 ms or more after its first call failed
C11_Witness ==
  /\ last.act = "batchWake"
  /\ \E s \in last.sent : s.trigger = "retry"
  /\ \E f \in flushes : f.items[1] = last.call /\ f.attempt = 1
  /\ now >= 500

C13_FailedBatchFallsBackToIndividual ==
  (/\ last.act = "batchResponse"
   /\ ~(last.resp.type = "http" /\ last.resp.status \in 200..299
          /\ last.resp.body.json = "object")
   /\ "sleep" \notin last.eff)
    => /\ "fetch" \in last.eff
       /\ last.returned = {}

\* C14 as stated: after a successful batch answer every item resolves to
\* the `translated` of an entry with the item's cache key, whatever the
\* order of the entries, and to its own text when no entry has its key.
C14_RemappedByCacheKey ==
  (/\ last.act = "batchResponse"
   /\ last.resp.type = "http" /\ last.resp.status \in 200..299
   /\ last.resp.body.json = "object")
    => \A r \in last.returned :
         LET e    == last.resp.body.responses
             hits == {j \in 1..Len(e) : e[j].cache_key = r.cacheKey}
         IN  IF hits = {} THEN r.value = r.text
             ELSE \E j \in hits : r.value = e[j].translated

\* C14, amended: after a successful batch answer every item resolves to the
\* `translated` of the first entry with the item's cache key when that is a
\* non-empty string, and to its own text when it is empty or missing or
\* when no entry has the key; the other items are not affected.
C14_RemappedByCacheKeyOrOriginal ==
  (/\ last.act = "batchResponse"
   /\ last.resp.type = "http" /\ last.resp.status \in 200..299
   /\ last.resp.body.json = "object")
    => /\ last.returned # {}
       /\ \A r \in last.returned :
            LET e    == last.resp.body.responses
                hits == {j \in 1..Len(e) : e[j].cache_key = r.cacheKey}
                j    == CHOOSE h \in hits : \A g \in hits : h <= g
            IN  IF hits = {} THEN r.value = r.text
                ELSE IF e[j].translated \in {Undefined, <<>>}
                  THEN r.value = r.text
                ELSE r.value = e[j].translated

\* the answer has no entry for the key of the first item and starts with
\* the entry of a later item, which resolves to its translation
C14_Witness ==
  /\ last.act = "batchResponse"
  /\ last.resp.body.json = "object"
  /\ last.resp.body.responses # <<>>
  /\ \E r1, r2 \in last.returned :
       /\ r1.call < r2.call
       /\ \A j \in 1..Len(last.resp.body.responses) :
            last.resp.body.responses[j].cache_key # r1.cacheKey
       /\ r1.value = r1.text
       /\ last.resp.body.responses[1].cache_key = r2.cacheKey
       /\ r2.value = last.resp.body.responses[1].translated
       /\ r2.value # r2.text

\* C15: in both modes, when a promise is resolved after the backend has
\* returned a translation for the call, it is resolved with that translation
\* and a lookup of the call's key in the cache yields it at that moment.
C15_WrittenThroughBeforeResolve ==
  /\ (/\ last.act = "response"
      /\ last.resp.type = "http" /\ last.resp.status \in 200..299
      /\ last.resp.body.json = "object")
       => \A r \in last.returned :
            r.value = last.resp.body.translated /\ r.cached = r.value
  /\ (/\ last.act = "batchResponse"
      /\ last.resp.type = "http" /\ last.resp.status \in 200..299
      /\ last.resp.body.json = "object")
       => \A r \in last.returned :
            LET e    == last.resp.body.responses
                hits == {j \in 1..Len(e) : e[j].cache_key = r.cacheKey}
                j    == CHOOSE h \in hits : \A g \in hits : h <= g
            IN  (hits # {} /\ e[j].translated \notin {Undefined, <<>>})
                  => r.value = e[j].translated /\ r.cached = e[j].translated

\* C16: a translate that follows the step in which a call with the same
\* arguments was resolved with a translation from the backend (no other key
\* was cached in that step, and no time has passed) is a cache hit: it returns
\* the same value and neither enqueues nor sends a request.
C16_SecondCallIsCacheHit ==
  [][\A r \in last.returned :
       LET e     == last.resp.body.responses
           texts == {h.text : h \in last'.returned}
                      \cup (IF last'.call \in CallIds
                              THEN {calls'[last'.call].text}
                              ELSE {})
       IN  (/\ last.act \in {"response", "batchResponse"}
            /\ last.resp.type = "http" /\ last.resp.status \in 200..299
            /\ last.resp.body.json = "object"
            /\ r.value \notin {Undefined, <<>>}
            /\ last.act = "response" => r.value = last.resp.body.translated
            /\ last.act = "batchResponse" =>
                 \E j \in 1..Len(e) :
                   e[j].cache_key = r.cacheKey /\ e[j].translated = r.value
            /\ \A q \in last.returned : q.cacheKey = r.cacheKey
            /\ last'.act = "translate"
            /\ r.text \in texts)
             => /\ last'.eff \cap {"enqueue", "fetch", "batchFetch"} = {}
                /\ \E h \in last'.returned :
                     last'.returned = {h} /\ h.value = r.value]_vars

C18_EvictsLeastRecentlyUsed ==
  [][(/\ ~persistent
      /\ last'.act = "set"
      /\ Len(cache) >= StoreMaxSize
      /\ \A i \in 1..Len(cache) : cache[i].key # last'.key)
       => /\ Len(last.usage) = Len(cache)
          /\ last'.evicted = <<last.usage[1]>>
          /\ {cache'[i].key : i \in 1..Len(cache')}
               = ({cache[i].key : i \in 1..Len(cache)} \ {last.usage[1]})
                   \cup {last'.key}
          /\ Len(cache') = Len(cache)]_vars

\* with maxSize 2 or more: after a and b were set and a was read, the set
\* of c has evicted b and kept a
C18_Witness ==
  /\ ~persistent
  /\ last.act = "set"
  /\ last.key = KeyC
  /\ last.evicted = <<KeyB>>
  /\ cache # <<>>
  /\ cache[1].key = KeyA
  /\ last.usage[1] = KeyA

\* C19: a get on an LRUCache that holds an entry for the key stored at T0
\* returns nothing and removes the entry when now - T0 > ttl, and returns
\* the stored value and keeps the entry when now - T0 <= ttl.
C19_GetNeverReturnsExpired ==
  [][\A i \in 1..Len(cache) :
       (~persistent /\ last'.act = "get" /\ last'.key = cache[i].key)
        => IF now - cache[i].timestamp > CacheTtl
             THEN /\ last'.value = Undefined
                  /\ \A j \in 1..Len(cache') : cache'[j].key # cache[i].key
             ELSE /\ last'.value = cache[i].value
                  /\ \E j \in 1..Len(cache') : cache'[j] = cache[i]]_vars

\* a get returns an entry whose age is exactly the ttl
C19_Witness ==
  /\ ~persistent
  /\ last.act = "get"
  /\ \E i \in 1..Len(cache) :
       /\ cache[i].key = last.key
       /\ now - cache[i].timestamp = CacheTtl
       /\ last.value = cache[i].value

\* C20: when a set, a get that warms the memory layer or a preload of the
\* persistent cache evicts a key from the memory layer to make room, no
\* entry of that key is left in localStorage at the end of the step.
C20_EvictionRemovesPersistentEntry ==
  [][(persistent /\ last'.act \in {"set", "get", "preload"})
      => /\ \A j \in 1..Len(last'.evicted) :
              \A i \in 1..Len(localStorage') :
                localStorage'[i].key # last'.evicted[j]
         /\ \A k \in 1..Len(cache) :
              (/\ \A j \in 1..Len(cache') : cache'[j].key # cache[k].key
               /\ ~(last'.act = "get" /\ last'.key = cache[k].key))
                => \A i \in 1..Len(localStorage') :
                     localStorage'[i].key # cache[k].key]_vars

\* a get after a restart warms the full memory layer from localStorage: a
\* key is evicted and its persistent entry is gone
C20_Witness ==
  /\ persistent
  /\ last.act = "get"
  /\ last.value # Undefined
  /\ last.evicted # <<>>
  /\ localStorage # <<>>
  /\ \A i \in 1..Len(localStorage) : localStorage[i].key # last.evicted[1]

\* C21: a get of the persistent cache for a key that the memory layer does
\* not hold, or holds expired, while localStorage has an entry of the key,
\* returns the persisted value and leaves the key in the memory layer with
\* that value when the persisted entry has not expired, and returns nothing
\* and deletes the persisted entry when it has.
C21_ColdGetWarmsOrDeletes ==
  [][\A i \in 1..Len(localStorage) :
       (/\ persistent /\ storageAvailable
        /\ last'.act = "get"
        /\ last'.key = localStorage[i].key
        /\ \A k \in 1..Len(cache) :
             cache[k].key = last'.key => now - cache[k].timestamp > CacheTtl)
        => IF now - localStorage[i].timestamp > CacheTtl
             THEN /\ last'.value = Undefined
                  /\ \A j \in 1..Len(localStorage') :
                       localStorage'[j].key # last'.key
             ELSE /\ last'.value = localStorage[i].value
                  /\ \E k \in 1..Len(cache') :
                       /\ cache'[k].key = last'.key
                       /\ cache'[k].value = localStorage[i].value]_vars

\* a get has returned the value persisted at an earlier instant and put it
\* in the memory layer, which had no entry of the key and was full
C21_Witness ==
  /\ persistent /\ storageAvailable
  /\ last.act = "get"
  /\ last.key = KeyA
  /\ last.value = <<121>>
  /\ last.evicted # <<>>
  /\ \E k \in 1..Len(cache), i \in 1..Len(localStorage) :
       /\ cache[k].key = KeyA /\ cache[k].value = <<121>>
       /\ localStorage[i].key = KeyA /\ localStorage[i].value = <<121>>
       /\ localStorage[i].timestamp < cache[k].timestamp

\* C22: while localStorage is available and every setItem succeeds, after
\* any sequence of set, get, preload and clear each key that the memory
\* layer holds unexpired has an entry in localStorage with the same value.
C22_MemoryKeysAreMirrored ==
  (persistent /\ storageAvailable)
    => \A k \in 1..Len(cache) :
         now - cache[k].timestamp <= CacheTtl
           => \E i \in 1..Len(localStorage) :
                /\ localStorage[i].key = cache[k].key
                /\ localStorage[i].value = cache[k].value

\* C23: a LocalStorageCache that found no localStorage gives the results
\* of an LRUCache of the same maxSize and ttl: a get returns the value of
\* the unexpired entry of the key and nothing when there is none, and
\* after a get, set, clear or preload size() is what it is for the
\* LRUCache.
C23_DegradedBehavesAsLRUCache ==
  [][(persistent /\ ~storageAvailable)
      => LET key     == last'.key
             held    == {i \in 1..Len(cache) : cache[i].key = key}
             expired == {i \in held : now - cache[i].timestamp > CacheTtl}
         IN  /\ last'.act = "get"
                  => /\ \A i \in held \ expired : last'.value = cache[i].value
                     /\ held \ expired = {} => last'.value = Undefined
                     /\ Len(cache') = Len(cache) - Cardinality(expired)
             /\ last'.act = "set"
                  => Len(cache') = IF held # {} THEN Len(cache)
                                   ELSE Min(Len(cache) + 1, StoreMaxSize)
             /\ last'.act = "clear" => Len(cache') = 0
             /\ last'.act = "preload" => Len(cache') = Len(cache)]_vars

\* C24: for one customerId, generateCacheKey gives the same key when
\* white space is added before or after the text, the locale, the context
\* or the tone, when the letter case of one of them is changed, and when a
\* context or tone that is the empty string is left out.
C24_KeyIgnoresSpaceAndCase ==
  last.act = "key" => last.variedKey = last.key

\* C25: in the payload of a request entry, individual or batch, the tone
\* is the first 50 and the context the first 500 characters of the
\* options (the empty string when the option is missing), and the entry's
\* cache_key is the key of exactly these values.
C25_PayloadMatchesKeyInputs ==
  last.act = "sent"
    => LET tone    == IF last.options.tone = Undefined THEN <<>>
                      ELSE last.options.tone
           context == IF last.options.context = Undefined THEN <<>>
                      ELSE last.options.context
       IN  /\ last.payload.tone = SubSeq(tone, 1, Min(Len(tone), 50))
           /\ last.payload.context = SubSeq(context, 1, Min(Len(context), 500))
           /\ last.payload.tone = last.tone
           /\ last.payload.context = last.context
           /\ last.payload.cache_key
                = generateCacheKey(CustomerId, last.payload.text,
                                   last.payload.locale, last.payload.context,
                                   last.payload.tone)

\* a batch entry has been built for options with a tone of 51 and a
\* context of 501 characters
C25_Witness ==
  /\ last.act = "sent"
  /\ last.batch
  /\ Len(last.options.tone) = 51
  /\ Len(last.options.context) = 501
  /\ Len(last.payload.tone) = 50
  /\ Len(last.payload.context) = 500

\* C26 as stated: after attempt n failed at elapsed time e < 5000 with a
\* failure that is retried, the call sleeps before the next attempt, for
\* no longer than min(100 * 2^n, 1600) ms and not past the 5000 ms of the
\* budget; time remains, so the sleep is not skipped.
C26_SleepClippedToBudget ==
  last.act = "failed"
    => /\ last.after.pc = "sleep"
       /\ last.after.wake > last.elapsed
       /\ last.after.wake - last.elapsed
            <= Min(100 * (2 ^ last.attempt), 1600)
       /\ last.after.wake <= 5000

\* C26 amended: the sleep is min(100 * 2^n, 1600) ms cut down to what
\* remains of the budget less 100 ms, that is min(100 * 2^n, 1600,
\* 4900 - e); when e >= 4900 there is no sleep and attempt n + 1 starts
\* at once.
C26_SleepClippedToBudgetLessReserve ==
  last.act = "failed"
    => LET delay == Min(100 * (2 ^ last.attempt), 1600)
           sleep == Min(delay, 4900 - last.elapsed)
       IN  IF sleep > 0
             THEN /\ last.after.pc = "sleep"
                  /\ last.after.wake = last.elapsed + sleep
                  /\ last.after.attempt = last.attempt
             ELSE /\ last.after.pc = "fetch"
                  /\ last.after.attempt = last.attempt + 1
                  /\ last.after.requests = last.attempt + 2

\* attempt 0 failed 4850 ms into the call: the sleep is cut from 100 to
\* 50 ms
C26_Witness ==
  /\ last.act = "failed"
  /\ last.attempt = 0
  /\ last.elapsed = 4850
  /\ last.after.pc = "sleep"
  /\ last.after.wake = 4900

\* C27: in individual mode onRetry is called once before each attempt
\* n >= 1, with n, and not before attempt 0; and with an observer, whatever
\* it does, the call makes the requests and returns the value it makes
\* and returns without one: each attempt that starts makes its request, and
\* the text is returned as a fallback only after 5 requests, after 5000 ms
\* or on a 400.
C27_ObserverCalledAndInert ==
  /\ \A i \in CallIds :
       calls[i].pc \in {"fetch", "sleep"}
         => /\ calls[i].notified
                 = IF calls[i].onRetry = "none" THEN <<>>
                   ELSE [n \in 1..calls[i].attempt |-> n]
            /\ calls[i].requests = calls[i].attempt + 1
  /\ \A r \in last.returned :
       r.how = "fallback"
         => \/ r.requests = 5
            \/ r.elapsed >= 5000
            \/ last.resp.type = "http" /\ last.resp.status = 400

\* C28: a flush takes the whole queue, leaves it empty, and keeps its
\* items until it ends: an item enqueued while the batch call of a flush
\* is in flight or waits for its retry stays out of that flush, the queue
\* and the flushes never share an item, and the retry of a batch sends the
\* items of the first call.
C28_OneFlushPerItem ==
  [][/\ \A g \in flushes' :
          \/ \E f \in flushes :
               /\ g.items = f.items
               /\ \/ g = f
                  \/ f.pc = "fetch" /\ g.pc = "sleep" /\ g.attempt = f.attempt
                  \/ /\ f.pc = "sleep" /\ g.pc = "fetch"
                     /\ g.attempt = f.attempt + 1
                     /\ last'.act = "batchWake"
                     /\ \A s \in last'.sent : s.entries = Len(f.items)
          \/ /\ g.attempt = 0 /\ g.pc = "fetch"
             /\ g.items = IF last'.act = "translate"
                            THEN Append(translationQueue, last'.call)
                            ELSE translationQueue
             /\ translationQueue' = <<>>
             /\ \A s \in last'.sent : s.entries = Len(g.items)
     /\ \A g \in flushes', k \in 1..Len(translationQueue') :
          \A j \in 1..Len(g.items) : g.items[j] # translationQueue'[k]
     /\ \A g \in flushes', h \in flushes' :
          g # h => \A j \in 1..Len(g.items), k \in 1..Len(h.items) :
                     g.items[j] # h.items[k]
     /\ \A g \in flushes' :
          \A j \in 1..Len(g.items), k \in 1..Len(g.items) :
            j # k => g.items[j] # g.items[k]]_vars

\* an item has been enqueued while a flush waits for its retry: it is
\* alone in the queue and not in that flush
C28_Witness ==
  /\ last.act = "translate"
  /\ translationQueue = <<last.call>>
  /\ \E f \in flushes :
       /\ f.pc = "sleep"
       /\ Len(f.items) >= 2
       /\ \A j \in 1..Len(f.items) : f.items[j] # last.call

\* C29: the calls are numbered in the order of their enqueues.  The queue
\* holds its items in that order, and when the batch call of a new flush
\* starts, every item enqueued before one of its items and not settled yet
\* is in the new flush or in a flush whose batch call started before.
C29_FlushedInQueueOrder ==
  [][/\ \A j \in 1..Len(translationQueue'), k \in 1..Len(translationQueue') :
          j < k => translationQueue'[j] < translationQueue'[k]
     /\ \A g \in flushes' :
          (\A f \in flushes : f.items # g.items)
            => /\ last'.sent # {}
               /\ \A k \in 1..Len(g.items), a \in CallIds :
                    (a < g.items[k] /\ calls'[a].pc = "queued")
                      => \/ \E j \in 1..Len(g.items) : g.items[j] = a
                         \/ \E f \in flushes :
                              \E j \in 1..Len(f.items) : f.items[j] = a]_vars

\* the batch call of a second flush starts while the first flush, which
\* carries the items enqueued earlier, still awaits its own
C29_Witness ==
  /\ last.sent # {}
  /\ \E f \in flushes, g \in flushes :
       /\ f # g
       /\ g.attempt = 0 /\ g.pc = "fetch"
       /\ Len(f.items) >= 2
       /\ \A j \in 1..Len(f.items), k \in 1..Len(g.items) :
            f.items[j] < g.items[k]
       /\ \A k \in 1..Len(g.items) : calls[g.items[k]].pc = "queued"

\* C30: a set of an LRUCache on a key it holds puts the new value and the
\* current time in the entry where it is: every other entry, the order of
\* the entries and the size stay as they were, also at maxSize, and no
\* key is evicted or notified as evicted.
C30_OverwriteInPlace ==
  [][\A i \in 1..Len(cache) :
       (~persistent /\ last'.act = "set" /\ last'.key = cache[i].key)
        => /\ Len(cache') = Len(cache)
           /\ \A k \in 1..Len(cache) : k # i => cache'[k] = cache[k]
           /\ cache'[i] = [key |-> last'.key, value |-> last'.value,
                           timestamp |-> now]
           /\ last'.evicted = <<>>]_vars

\* the older of the two entries of a full cache has been given another
\* value at a later instant, and is still the first of the two
C30_Witness ==
  /\ ~persistent
  /\ last.act = "set"
  /\ last.key = KeyA
  /\ last.value = <<121>>
  /\ last.evicted = <<>>
  /\ Len(cache) = StoreMaxSize
  /\ cache[1] = [key |-> KeyA, value |-> <<121>>, timestamp |-> now]
  /\ cache[2].timestamp < now

\* C31: with every setItem succeeding, the entry localStorage has of a key
\* carries the value and the instant of the latest set of the key; a get
\* of the persistent cache that returns that value does so no more than
\* the ttl after that instant.
C31_GetWithinTtlOfSet ==
  (persistent /\ storageAvailable /\ last.act = "get"
   /\ last.value # Undefined)
    => \A i \in 1..Len(localStorage) :
         (localStorage[i].key = last.key
          /\ localStorage[i].value = last.value)
           => now - localStorage[i].timestamp <= CacheTtl

C38_PreloadKeepsLiveItems ==
  [][(persistent /\ storageAvailable /\ last'.act = "preload")
       => \A j \in 1..Len(localStorage) :
            now - localStorage[j].timestamp <= CacheTtl
              => \E i \in 1..Len(localStorage') :
                   localStorage'[i] = localStorage[j]]_vars

\* the number a hexadecimal digit stands for, -1 for another code unit
HexValue(c) ==
  IF c \in 48..57 THEN c - 48 ELSE IF c \in 97..102 THEN c - 87 ELSE -1

\* the number four hexadecimal digits stand for
HexQuad(d, from) ==
  4096 * HexValue(d[from]) + 256 * HexValue(d[from + 1])
    + 16 * HexValue(d[from + 2]) + HexValue(d[from + 3])

RECURSIVE RollLow(_)
\* the low 16 bits of h = h * 31 + charCode over the string
RollLow(str) ==
  IF str = <<>> THEN 0
  ELSE (31 * RollLow(SubSeq(str, 1, Len(str) - 1)) + str[Len(str)]) % 65536

\* C34: the digest simpleHash returns is eight hexadecimal digits, and they
\* spell the absolute value of the signed 32-bit word that the loop
\* h = h * 31 + charCode leaves: 80000000 when the word is -2^31.
C34_DigestIsEightHexDigits ==
  last.act = "hash"
    => /\ Len(last.digest) = 8
       /\ \A i \in 1..Len(last.digest) : HexValue(last.digest[i]) \in 0..15
       /\ last.word.lo = RollLow(last.str)
       /\ IF last.word.hi < 32768
            THEN /\ HexQuad(last.digest, 1) = last.word.hi
                 /\ HexQuad(last.digest, 5) = last.word.lo
            ELSE \* the digits and the word add up to 2^32
                 /\ (HexQuad(last.digest, 5) + last.word.lo) % 65536 = 0
                 /\ (HexQuad(last.digest, 1) + last.word.hi
                       + (HexQuad(last.digest, 5) + last.word.lo) \div 65536)
                      % 65536 = 0
       /\ last.word = [hi |-> 32768, lo |-> 0]
            => last.digest = <<56, 48, 48, 48, 48, 48, 48, 48>>

\* the digest of a string whose hash is -2^31 has been computed
C34_Witness ==
  /\ last.act = "hash"
  /\ last.word = [hi |-> 32768, lo |-> 0]
  /\ Len(last.str) > 0

\* C35: of two translate calls under way with the same text and the same
\* options, hence the same cache key, at most one has sent a request of
\* its own.
C35_OneRequestForIdenticalCalls ==
  \A i \in CallIds, j \in CallIds :
    (/\ i < j
     /\ calls[i].pc \in {"fetch", "sleep"}
     /\ calls[j].pc \in {"fetch", "sleep"}
     /\ calls[i].text = calls[j].text
     /\ calls[i].options = calls[j].options
     /\ calls[i].cacheKey = calls[j].cacheKey)
      => ~(calls[i].requests >= 1 /\ calls[j].requests >= 1)

\* C36: after every handler at most one flush timer is pending, one is
\* pending exactly when the queue is not empty and it is the one
\* this.queueTimer names; a timer comes to be pending only by a translate
\* call that found none pending and queued its item.
C36_TimerArmedIffQueued ==
  [][/\ Cardinality(timers') <= 1
     /\ (timers' # {}) <=> (translationQueue' # <<>>)
     /\ timers' = (IF queueTimer' = 0 THEN {} ELSE {queueTimer'})
     /\ (timers' # {} /\ timers' # timers)
          => /\ last'.act = "translate"
             /\ timers = {}
             /\ queueTimer = 0
             /\ translationQueue' = Append(translationQueue, last'.call)]_vars

\* after a flush emptied the queue and took the timer away, a translate
\* call queues an item and arms a timer again
C36_Witness ==
  /\ batchRequests
  /\ last.act = "translate"
  /\ flushCount >= 1
  /\ translationQueue = <<last.call>>
  /\ timers = {queueTimer}
  /\ queueTimer = now + QueueTimerDelay

\* C37: the entry sent for a call, in the body of an individual request or
\* in a batch request, has the locale translate used for the call's cache
\* key, and its cache_key is the key of its own text, locale, context and
\* tone.
C37_SentLocaleIsKeyLocale ==
  last.act = "sent"
    => /\ last.payload.locale = last.locale
       /\ last.payload.cache_key
            = generateCacheKey(CustomerId, last.payload.text,
                               last.payload.locale, last.payload.context,
                               last.payload.tone)

\* C39: a step that ends a translate call with the original text (the
\* input was rejected, the individual call gave up, the batch failed or
\* had no translation for the item) writes nothing to the cache for the
\* call: when no call of the step gets a translation the cache is what it
\* was, and otherwise the entry under the call's key is the one the cache
\* had, unless the key is also the key of a call that gets a translation.
C39_FallbackWritesNothing ==
  [][\A r \in last'.returned :
       r.how \in {"invalid", "fallback"}
         => LET written == {s.cacheKey :
                              s \in {x \in last'.returned :
                                       x.how \notin {"invalid", "fallback"}}}
            IN  /\ written = {} => cache' = cache
                /\ r.cacheKey \notin written
                     => \A k \in 1..Len(cache') :
                          cache'[k].key = r.cacheKey
                            => \E j \in 1..Len(cache) :
                                 cache[j] = cache'[k]]_vars

\* a batch answered with a list of translations, and an item of the batch
\* whose key the list does not have gets its original text
C39_Witness ==
  /\ last.act = "batchResponse"
  /\ last.resp.type = "http"
  /\ last.resp.status \in 200..299
  /\ last.resp.body.json = "object"
  /\ \E r \in last.returned :
       /\ r.how = "fallback"
       /\ \A j \in 1..Len(last.resp.body.responses) :
            last.resp.body.responses[j].cache_key # r.cacheKey

\* C40: getCacheStats reports as maxSize the size the cache was constructed
\* with, config.cache.entrySize or DEFAULT_CACHE_SIZE, and a size that is
\* not above it.
C40_StatsMatchCache ==
  /\ getCacheStats(cache).maxSize = CacheMaxSize
  /\ getCacheStats(cache).size <= getCacheStats(cache).maxSize

\* the keys of a sequence of entries, in order
KeySeq(c) == [k \in 1..Len(c) |-> c[k].key]

====
